---- MODULE Spec2Model ----
(***************************************************************************)
(* A model of libabigail's symtab reader (symtab, symtab_filter,           *)
(* symtab_filter_builder, symtab_iterator).                                *)
(*                                                                         *)
(* Strings are sequences of character codes, so that prefix tests,         *)
(* substr() and the lexicographic operator< of std::string are computed    *)
(* and not assumed.                                                        *)
(***************************************************************************)
EXTENDS Integers, Sequences, FiniteSets, TLC

VARIABLES
  pc,                     \* position of the caller: start, scan, loaded, failed, aborted, filter, iter
  elf,                    \* the Elf* handle given to symtab::load
  is_suppressed,          \* the symbol_predicate argument of load
  idx,                    \* loop counter i of load_: entries read so far
  heap,                   \* the elf_symbol objects created so far, in creation order
  sym_value,              \* for each of them, the address load_ computed for it
  symbols_,               \* symtab::symbols_ (heap ids)
  name_symbol_map_,       \* symtab::name_symbol_map_
  addr_symbol_map_,       \* symtab::addr_symbol_map_
  entry_addr_symbol_map_, \* symtab::entry_addr_symbol_map_
  exported_kernel_symbols,\* local set of load_
  markers,                \* the names of the ksymtab marker entries load_ has read
  is_kernel_binary_,      \* symtab::is_kernel_binary_
  has_ksymtab_entries_,   \* symtab::has_ksymtab_entries_
  result,                 \* the symtab_ptr returned by symtab::load
  ret,                    \* what the last call returned to the caller
  filter_,                \* symtab_filter_builder::filter_
  iter,                   \* the symtab_iterator of the caller
  suppressions,           \* the suppressions of the read context (get_suppressions())
  regcomp_calls,          \* per suppression and regex member, the calls of regcomp so far
  type_is_private,        \* the caller's variable bound to the out-parameter of type_is_suppressed
  corpus,                 \* the two corpora handed to the comparison
  report,                 \* the changes the comparison reports, and its status
  threads,                \* the threads that call a getter of the shared suppression
  opt,                    \* an abg_compat::optional<T> of the caller
  supplied,               \* the values given to opt so far, in order
  wctxt,                  \* the write_context of the XML writer
  ids_given,              \* the numbers the id_manager has handed out, in order
  ir,                     \* the types and templates of the IR that is written
  wtu                     \* the call of write_translation_unit: its unit and its locals

vars == <<pc, elf, is_suppressed, idx, heap, sym_value, symbols_, name_symbol_map_,
          addr_symbol_map_, entry_addr_symbol_map_, exported_kernel_symbols, markers,
          is_kernel_binary_, has_ksymtab_entries_, result, ret, filter_, iter,
          suppressions, regcomp_calls, type_is_private, corpus, report,
          threads, opt, supplied, wctxt, ids_given, ir, wtu>>

\* the state of the suppression engine and of the comparison
supprVars == <<suppressions, regcomp_calls, type_is_private, corpus, report>>

\* the state of the components that the symtab reader and the suppression
\* engine do not touch
laterVars == <<threads, opt, supplied, wctxt, ids_given, ir, wtu>>

symtabVars == <<symbols_, name_symbol_map_, addr_symbol_map_,
                entry_addr_symbol_map_, is_kernel_binary_,
                has_ksymtab_entries_>>

-----------------------------------------------------------------------------
(* Bounds of the model *)

\* number of entries of the scanned .symtab section
MaxSyms == 2

-----------------------------------------------------------------------------
(* std::string *)

S_foo == <<102, 111, 111>>
S_dot_foo == <<46, 102, 111, 111>>
S_bar == <<98, 97, 114>>
S_ksymtab_prefix == <<95, 95, 107, 115, 121, 109, 116, 97, 98, 95>>
S_ksymtab_foo == S_ksymtab_prefix \o S_foo
S_empty == <<>>
S_V1 == <<86, 49>>
S_at == <<64>>

\* std::string operator<: lexicographic on the character codes
RECURSIVE StrLess(_, _)
StrLess(a, b) ==
  IF b = <<>> THEN FALSE
  ELSE IF a = <<>> THEN TRUE
  ELSE IF Head(a) # Head(b) THEN Head(a) < Head(b)
  ELSE StrLess(Tail(a), Tail(b))

\* name.rfind(prefix, 0) == 0
StartsWith(name, prefix) ==
  /\ Len(name) >= Len(prefix)
  /\ SubSeq(name, 1, Len(prefix)) = prefix

\* name.substr(n)
Substr(name, n) == SubSeq(name, n + 1, Len(name))

-----------------------------------------------------------------------------
(* abg_compat::optional<bool> *)

optional_empty == [has_value_ |-> FALSE, value_ |-> FALSE]
optional_of(v) == [has_value_ |-> TRUE, value_ |-> v]

-----------------------------------------------------------------------------
(* elf_symbol *)

Nil == 0

elf_symbol_create(i, name, type, binding, defined, common, ver, visibility, id) ==
  [index |-> i, name |-> name, type |-> type, binding |-> binding,
   is_defined |-> defined, is_common |-> common, version |-> ver,
   visibility |-> visibility, is_suppressed |-> FALSE,
   is_in_ksymtab |-> FALSE, main_symbol |-> id, next_alias |-> Nil,
   next_common_instance |-> Nil]

is_function(s) == s.type \in {"FUNC", "GNU_IFUNC"}
is_variable(s) == s.type \in {"OBJECT", "TLS"}
is_defined(s) == s.is_defined
is_common_symbol(s) == s.is_common
is_in_ksymtab(s) == s.is_in_ksymtab
is_public(s) ==
  /\ s.is_defined
  /\ s.binding \in {"GLOBAL", "WEAK", "GNU_UNIQUE"}
  /\ s.visibility \in {"DEFAULT", "PROTECTED"}

get_id_string(s) ==
  IF s.version = S_empty THEN s.name ELSE s.name \o S_at \o s.version

\* the aliases of the main symbol m, in chain order
RECURSIVE alias_chain(_, _, _)
alias_chain(h, m, cur) ==
  IF h[cur].next_alias = Nil \/ h[cur].next_alias = m THEN <<>>
  ELSE <<h[cur].next_alias>> \o alias_chain(h, m, h[cur].next_alias)

get_aliases(h, m) == alias_chain(h, m, m)

\* main->add_alias(alias): append alias to the chain of main
add_alias(h, main, alias) ==
  LET chain == get_aliases(h, main)
      last == IF chain = <<>> THEN main ELSE chain[Len(chain)]
      h1 == [h EXCEPT ![last].next_alias = alias]
  IN [h1 EXCEPT ![alias].next_alias = main, ![alias].main_symbol = main]

RECURSIVE common_chain(_, _, _)
common_chain(h, m, cur) ==
  IF h[cur].next_common_instance = Nil \/ h[cur].next_common_instance = m
  THEN <<>>
  ELSE <<h[cur].next_common_instance>>
       \o common_chain(h, m, h[cur].next_common_instance)

get_common_instances(h, m) == common_chain(h, m, m)

add_common_instance(h, main, common) ==
  LET chain == get_common_instances(h, main)
      last == IF chain = <<>> THEN main ELSE chain[Len(chain)]
      h1 == [h EXCEPT ![last].next_common_instance = common]
  IN [h1 EXCEPT ![common].next_common_instance = main,
                ![common].main_symbol = main]

\* elf_symbol::textually_equals
textually_equals(a, b) ==
  /\ a.name = b.name /\ a.type = b.type /\ is_public(a) = is_public(b)
  /\ a.is_defined = b.is_defined /\ a.is_common = b.is_common
  /\ a.version = b.version

\* h[a].does_alias(h[b])
does_alias(h, a, b) ==
  \/ textually_equals(h[a], h[b])
  \/ \E x \in {a} \cup {y \in 1..Len(h) : h[y].main_symbol = h[a].main_symbol} :
        h[x].name = h[b].name
  \/ h[a].main_symbol = h[b].main_symbol

-----------------------------------------------------------------------------
(* The ELF file behind the Elf* handle *)

\* what elf_helpers reports about the handle
ElfHandles ==
  [symtab_section : BOOLEAN,   \* find_symbol_table_section() found one
   sh_entsize : {0, 24},       \* symtab_sheader.sh_entsize
   data : BOOLEAN,             \* elf_getdata() succeeded
   is_kernel : BOOLEAN,        \* is_linux_kernel()
   is_ppc64 : BOOLEAN]         \* architecture_is_ppc64()

\* st_value of the defined symbols
Addrs == {1, 2}

\* the .opd section of a ppc64 ELFv1 file: the function descriptor at address
\* 1 designates the entry point 2, which lies in .text
address_is_in_opd_section(e, addr) == e.is_ppc64 /\ addr = 1
lookup_ppc64_elf_fn_entry_point_address(e, addr) ==
  IF address_is_in_opd_section(e, addr) THEN 2 ELSE addr

\* maybe_adjust_et_rel_sym_addr_to_abs_addr: the files modelled are not ET_REL
\* files with a section address, so the value is the address
maybe_adjust_et_rel_sym_addr_to_abs_addr(e, sym) == sym.st_value

\* representative (st_info, st_shndx, st_value) combinations of an entry
SymKinds ==
  { [st_type |-> "FUNC",   st_shndx |-> "SEC",        st_value |-> 1, st_bind |-> "GLOBAL"],
    [st_type |-> "FUNC",   st_shndx |-> "SEC",        st_value |-> 2, st_bind |-> "GLOBAL"],
    [st_type |-> "OBJECT", st_shndx |-> "SEC",        st_value |-> 1, st_bind |-> "LOCAL"],
    [st_type |-> "OBJECT", st_shndx |-> "SHN_COMMON", st_value |-> 1, st_bind |-> "GLOBAL"],
    [st_type |-> "FUNC",   st_shndx |-> "SHN_UNDEF",  st_value |-> 0, st_bind |-> "GLOBAL"],
    [st_type |-> "OBJECT", st_shndx |-> "SHN_ABS",    st_value |-> 1, st_bind |-> "GLOBAL"],
    [st_type |-> "NOTYPE", st_shndx |-> "SEC",        st_value |-> 1, st_bind |-> "GLOBAL"] }

\* the names of the symbols of the file
EntryNames == {S_foo, S_dot_foo}

\* the entries gelf_getsym() can yield
SymEntries ==
  { [name_str |-> TRUE, name |-> n, st_type |-> k.st_type,
     st_shndx |-> k.st_shndx, st_value |-> k.st_value, st_bind |-> k.st_bind] :
       n \in EntryNames, k \in SymKinds }
  \cup
  \* an entry without a name (elf_strptr() yields NULL), one with the empty
  \* name, and the entry EXPORT_SYMBOL(foo) leaves in a Linux kernel binary
  { [name_str |-> x[1], name |-> x[2], st_type |-> "OBJECT",
     st_shndx |-> "SEC", st_value |-> 2, st_bind |-> "LOCAL"] :
       x \in {<<FALSE, S_empty>>, <<TRUE, S_empty>>, <<TRUE, S_ksymtab_foo>>} }

\* the symbol_predicate arguments of load: none (NULL), or a predicate that
\* answers true for the symbols with a name in names
Predicates ==
  { p \in [set : BOOLEAN, names : SUBSET EntryNames] : ~p.set => p.names = {} }
NoPredicate == [set |-> FALSE, names |-> {}]

\* is_suppressed(symbol_sptr)
predicate_answer(pred, s) == s.name \in pred.names

stt_to_elf_symbol_type(t) == t
stb_to_elf_symbol_binding(b) == b

-----------------------------------------------------------------------------
(* unordered_map *)

Find(m, k) == k \in DOMAIN m

\* m[k].push_back(v)
map_push_back(m, k, v) ==
  IF Find(m, k) THEN [m EXCEPT ![k] = Append(@, v)] ELSE m @@ (k :> <<v>>)

emplace_overwrites(m, k, v) ==
  [x \in DOMAIN m \cup {k} |-> IF x = k THEN v ELSE m[x]]

\* m.emplace(k, v) / m.insert(make_pair(k, v)): an existing entry is kept
emplace(m, k, v) == IF Find(m, k) THEN m ELSE m @@ (k :> v)

\* m[k] = v
map_assign(m, k, v) == [x \in DOMAIN m \cup {k} |-> IF x = k THEN v ELSE m[x]]

EmptyMap == <<>>

-----------------------------------------------------------------------------
(* symtab: lookups *)

lookup_symbol_name_inserting(names, name) ==
  [map |-> IF name \in DOMAIN names THEN names ELSE names @@ (name :> <<>>),
   val |-> IF name \in DOMAIN names THEN names[name] ELSE <<>>]

\* symtab::lookup_symbol(const std::string&): the vector found, else
\* empty_result; map is name_symbol_map_ after the call
lookup_symbol_name(names, name) ==
  [map |-> names,
   val |-> IF Find(names, name) THEN names[name] ELSE <<>>]

\* symtab::lookup_symbol(GElf_Addr): the symbol found in addr_symbol_map_, else
\* the one found in entry_addr_symbol_map_, else empty_result
lookup_symbol_addr(addrs, entries, symbol_addr) ==
  IF Find(addrs, symbol_addr) THEN addrs[symbol_addr]
  ELSE IF Find(entries, symbol_addr) THEN entries[symbol_addr]
  ELSE Nil

-----------------------------------------------------------------------------
(* symtab: sorting *)

symbol_sort_greater(h, left, right) ==
  StrLess(get_id_string(h[right]), get_id_string(h[left]))

\* the functor symbol_sort
symbol_sort(h, left, right) ==
  StrLess(get_id_string(h[left]), get_id_string(h[right]))

IsSortedBy(h, s) ==
  \A i \in 1..Len(s) : \A j \in 1..Len(s) :
     i < j => ~symbol_sort(h, s[j], s[i])

InsertAt(s, pos, x) == SubSeq(s, 1, pos - 1) \o <<x>> \o SubSeq(s, pos, Len(s))

std_sort_skipped(h, s) == {s}

\* std::sort(symbols_.begin(), symbols_.end(), symbol_sort): the sequences
\* std::sort may leave, which are the permutations of s ordered by symbol_sort;
\* the order of equivalent elements is not specified
RECURSIVE std_sort(_, _)
std_sort(h, s) ==
  IF s = <<>> THEN {<<>>}
  ELSE LET x == s[Len(s)]
           front == std_sort(h, SubSeq(s, 1, Len(s) - 1))
       IN { InsertAt(t, pos, x) : <<t, pos>> \in
              { tp \in front \X (1..Len(s)) :
                  IsSortedBy(h, InsertAt(tp[1], tp[2], x)) } }

-----------------------------------------------------------------------------
(* symtab::load from an ELF handle *)

Range(s) == {s[i] : i \in 1..Len(s)}

NoElf == [symtab_section |-> FALSE, sh_entsize |-> 0, data |-> FALSE,
          is_kernel |-> FALSE, is_ppc64 |-> FALSE]
NoRet == [op |-> "none"]
NoIter == [pos |-> 0, end_ |-> 0]
\* symtab_filter(): no predicate is set
default_filter ==
  [functions_ |-> optional_empty, variables_ |-> optional_empty,
   public_symbols_ |-> optional_empty, undefined_symbols_ |-> optional_empty,
   kernel_symbols_ |-> optional_empty]

\* a write context as its constructor leaves it
NoWriteContext ==
  [m_cur_id |-> 0, m_type_id_map |-> <<>>, m_fn_tmpl_id_map |-> <<>>,
   m_class_tmpl_id_map |-> <<>>, m_referenced_types_map |-> {},
   m_emitted_type_set |-> {}, m_emitted_decl_only_set |-> {}]

\* no thread, an empty optional and a fresh write context
NoLater ==
  /\ threads = <<>>
  /\ opt = optional_empty
  /\ supplied = <<>>
  /\ wctxt = NoWriteContext
  /\ ids_given = <<>>
  /\ ir = <<>>
  /\ wtu = [op |-> "none"]

\* a read context without suppressions, and no comparison made
NoSuppr ==
  /\ suppressions = <<>>
  /\ regcomp_calls = <<>>
  /\ type_is_private = FALSE
  /\ corpus = <<>>
  /\ report = [op |-> "none"]
  /\ NoLater

\* symtab::symtab() and the state before the caller's first call
Init ==
  /\ pc = "start"
  /\ elf = NoElf
  /\ is_suppressed = NoPredicate
  /\ idx = 0
  /\ heap = <<>>
  /\ sym_value = <<>>
  /\ symbols_ = <<>>
  /\ name_symbol_map_ = EmptyMap
  /\ addr_symbol_map_ = EmptyMap
  /\ entry_addr_symbol_map_ = EmptyMap
  /\ exported_kernel_symbols = {}
  /\ markers = {}
  /\ is_kernel_binary_ = FALSE
  /\ has_ksymtab_entries_ = FALSE
  /\ result = "none"
  /\ ret = NoRet
  /\ filter_ = default_filter
  /\ iter = NoIter
  /\ NoSuppr

load_return_result(ok) == "symtab"

\* symtab::load: the pointer handed to the caller
load_return(ok) == IF ok THEN "symtab" ELSE "null"

\* the three early returns of load_
load_can_start(e) == e.symtab_section /\ e.sh_entsize # 0 /\ e.data

\* symtab::load(elf_handle, env, is_suppressed) up to the loop of load_
LoadBegin ==
  /\ pc = "start"
  /\ \E e \in ElfHandles, p \in Predicates :
       /\ elf' = e
       /\ is_suppressed' = p
       /\ IF load_can_start(e)
          THEN /\ pc' = "scan"
               /\ UNCHANGED <<result, ret>>
          ELSE /\ pc' = "failed"
               /\ result' = load_return(FALSE)
               /\ ret' = [op |-> "load", ok |-> FALSE]
  /\ UNCHANGED <<idx, heap, sym_value, symtabVars, exported_kernel_symbols, markers, supprVars, laterVars, filter_, iter>>

\* gelf_getsym() fails for entry idx: load_ returns false
ScanUnreadable ==
  /\ pc = "scan"
  /\ idx < MaxSyms
  /\ pc' = "failed"
  /\ result' = load_return(FALSE)
  /\ ret' = [op |-> "load", ok |-> FALSE]
  /\ UNCHANGED <<elf, is_suppressed, idx, heap, sym_value, symtabVars,
                 exported_kernel_symbols, markers, supprVars, laterVars, filter_, iter>>

\* the entries load_ keeps: functions and variables
is_interesting(e) ==
  \/ e.st_type = "FUNC"
  \/ e.st_type = "GNU_IFUNC"
  \/ (e.st_type = "OBJECT" /\ e.st_shndx # "SHN_ABS")
  \/ e.st_type = "TLS"

goes_into_symbols_always(pred, s) == TRUE

\* !(is_suppressed && is_suppressed(symbol_sptr))
goes_into_symbols(pred, s) == ~(pred.set /\ predicate_answer(pred, s))

\* symtab::update_function_entry_address_symbol_map
update_function_entry_address_symbol_map(e, h, entries, st_value, id) ==
  LET fn_desc_addr == st_value
      fn_entry_point_addr == lookup_ppc64_elf_fn_entry_point_address(e, fn_desc_addr)
      was_inserted == ~Find(entries, fn_entry_point_addr)
      entries1 == emplace(entries, fn_entry_point_addr, id)
      prev == entries1[fn_entry_point_addr]
      two_symbols_alias == does_alias(h, h[prev].main_symbol, id)
      symbol_is_foo_and_prev_symbol_is_dot_foo == h[prev].name = <<46>> \o h[id].name
  IN IF ~was_inserted /\ address_is_in_opd_section(e, fn_desc_addr)
     THEN IF ~(two_symbols_alias \/ symbol_is_foo_and_prev_symbol_is_dot_foo)
          THEN [abort |-> TRUE, entries |-> entries1]
          ELSE IF symbol_is_foo_and_prev_symbol_is_dot_foo
               THEN [abort |-> FALSE,
                     entries |-> map_assign(entries1, fn_entry_point_addr, id)]
               ELSE [abort |-> FALSE, entries |-> entries1]
     ELSE [abort |-> FALSE, entries |-> entries1]

\* the body of the loop of load_ for one kept entry e: the symtab after it
collect_symbol(e) ==
  LET id == Len(heap) + 1
      sym_is_defined == e.st_shndx # "SHN_UNDEF"
      sym_is_common == e.st_shndx = "SHN_COMMON"
      created == elf_symbol_create(idx, e.name,
                    stt_to_elf_symbol_type(e.st_type),
                    stb_to_elf_symbol_binding(e.st_bind),
                    sym_is_defined, sym_is_common, S_empty, "DEFAULT", id)
      keep == goes_into_symbols(is_suppressed, created)
      h1 == Append(heap, [created EXCEPT !.is_suppressed = ~keep])
      symbols1 == IF keep THEN Append(symbols_, id) ELSE symbols_
      names1 == map_push_back(name_symbol_map_, e.name, id)
      same == [abort |-> FALSE, why |-> "none", heap |-> h1, symbols |-> symbols1,
               value |-> Nil,
               names |-> names1, addrs |-> addr_symbol_map_,
               entries |-> entry_addr_symbol_map_]
  IN IF is_common_symbol(h1[id])
     THEN LET common_sym_instances == names1[e.name]
              main_common_sym == common_sym_instances[1]
          IN IF Len(common_sym_instances) > 1
             THEN IF /\ h1[main_common_sym].name = e.name
                     /\ is_common_symbol(h1[main_common_sym])
                     /\ id # main_common_sym
                  THEN [same EXCEPT !.heap = add_common_instance(h1, main_common_sym, id)]
                  ELSE [same EXCEPT !.abort = TRUE, !.why = "main_common_sym"]
             ELSE same
     ELSE IF is_defined(h1[id])
     THEN LET symbol_value == maybe_adjust_et_rel_sym_addr_to_abs_addr(elf, e)
              upd == IF elf.is_ppc64 /\ is_function(h1[id])
                     THEN update_function_entry_address_symbol_map(
                            elf, h1, entry_addr_symbol_map_, e.st_value, id)
                     ELSE [abort |-> FALSE, entries |-> entry_addr_symbol_map_]
              inserted == ~Find(addr_symbol_map_, symbol_value)
              addrs1 == emplace(addr_symbol_map_, symbol_value, id)
              h2 == IF inserted THEN h1
                    ELSE add_alias(h1, h1[addrs1[symbol_value]].main_symbol, id)
          IN IF upd.abort
             THEN [same EXCEPT !.abort = TRUE, !.why = "two_symbols_alias"]
             ELSE [same EXCEPT !.heap = h2, !.addrs = addrs1,
                               !.entries = upd.entries,
                               !.value = symbol_value]
     ELSE same

\* an ABG_ASSERT fails while the entry e is handled: the process is aborted
Abort(why, e) ==
  /\ pc' = "aborted"
  /\ ret' = [op |-> "abort", why |-> why, entry |-> e]
  /\ UNCHANGED <<elf, is_suppressed, idx, heap, sym_value, symtabVars,
                 exported_kernel_symbols, markers, supprVars, laterVars, result, filter_, iter>>

\* one round of the loop of load_: entry idx is read and handled
ScanEntry ==
  /\ pc = "scan"
  /\ idx < MaxSyms
  /\ \E e \in SymEntries :
       IF ~e.name_str \/ e.name = S_empty
       THEN /\ idx' = idx + 1
            /\ UNCHANGED <<pc, elf, is_suppressed, heap, sym_value, symtabVars,
                           exported_kernel_symbols, markers, supprVars, laterVars, result, ret, filter_, iter>>
       ELSE IF elf.is_kernel /\ StartsWith(e.name, S_ksymtab_prefix)
       THEN IF Substr(e.name, 10) \in exported_kernel_symbols
            THEN Abort("exported_kernel_symbols.insert", e)
            ELSE /\ exported_kernel_symbols' =
                      exported_kernel_symbols \cup {Substr(e.name, 10)}
                 /\ markers' = markers \cup {e.name}
                 /\ idx' = idx + 1
                 /\ UNCHANGED <<pc, elf, is_suppressed, heap, sym_value, symtabVars,
                                result, ret, filter_, iter, supprVars, laterVars>>
       ELSE IF ~is_interesting(e)
       THEN /\ idx' = idx + 1
            /\ UNCHANGED <<pc, elf, is_suppressed, heap, sym_value, symtabVars,
                           exported_kernel_symbols, markers, supprVars, laterVars, result, ret, filter_, iter>>
       ELSE LET after == collect_symbol(e)
            IN IF after.abort
               THEN Abort(after.why, e)
               ELSE /\ idx' = idx + 1
                    /\ heap' = after.heap
                    /\ sym_value' = Append(sym_value, after.value)
                    /\ symbols_' = after.symbols
                    /\ name_symbol_map_' = after.names
                    /\ addr_symbol_map_' = after.addrs
                    /\ entry_addr_symbol_map_' = after.entries
                    /\ UNCHANGED <<pc, elf, is_suppressed, is_kernel_binary_,
                                   has_ksymtab_entries_, exported_kernel_symbols, markers, supprVars, laterVars,
                                   result, ret, filter_, iter>>

\* the exported names that name a collected symbol
found_exports(names, exported) == {n \in exported : Find(names, n)}

apply_ksymtab_to_all(h, names, exported) ==
  LET marked == UNION {Range(names[n]) : n \in found_exports(names, exported)}
  IN [i \in 1..Len(h) |->
        IF i \in marked THEN [h[i] EXCEPT !.is_in_ksymtab = TRUE] ELSE h[i]]

\* the loop that applies the ksymtab_exported attribute
apply_ksymtab(h, names, exported) ==
  LET marked == UNION {Range(names[n]) : n \in found_exports(names, exported)}
  IN [i \in 1..Len(h) |->
        IF i \in marked /\ is_public(h[i])
        THEN [h[i] EXCEPT !.is_in_ksymtab = TRUE] ELSE h[i]]

\* the end of load_ after the last entry: ksymtab flags, sort, return true
LoadFinish ==
  /\ pc = "scan"
  /\ is_kernel_binary_' = elf.is_kernel
  /\ heap' = apply_ksymtab(heap, name_symbol_map_, exported_kernel_symbols)
  /\ has_ksymtab_entries_' =
       (has_ksymtab_entries_
        \/ found_exports(name_symbol_map_, exported_kernel_symbols) # {})
  /\ \E sorted \in std_sort(heap', symbols_) : symbols_' = sorted
  /\ pc' = "loaded"
  /\ result' = load_return(TRUE)
  /\ ret' = [op |-> "load", ok |-> TRUE]
  /\ UNCHANGED <<elf, is_suppressed, idx, sym_value, name_symbol_map_,
                 addr_symbol_map_, entry_addr_symbol_map_,
                 exported_kernel_symbols, markers, supprVars, laterVars, filter_, iter>>

-----------------------------------------------------------------------------
(* symtab::load from a pair of symbol maps *)

\* a string_elf_symbols_map_sptr: null, or a map that holds, under each of its
\* keys, one symbol of that name per version of vers
SymbolMaps ==
  { m \in [present : BOOLEAN, keys : SUBSET EntryNames,
           vers : {<<S_empty>>, <<S_empty, S_V1>>}] :
      ~m.present => (m.keys = {} /\ m.vers = <<S_empty>>) }

\* the entry of map m under the key k: its vector of symbols, of type type
map_entry(m, type, k) ==
  IF k \in m.keys
  THEN [v \in 1..Len(m.vers) |-> [name |-> k, type |-> type, ver |-> m.vers[v]]]
  ELSE <<>>

\* the symbols of map m in the iteration order ord of its keys
map_symbols(m, type, ord) ==
  map_entry(m, type, ord[1]) \o map_entry(m, type, ord[2])

inserts_succeed_unchecked(fm, vm) == TRUE

\* ABG_ASSERT(name_symbol_map_.insert(symbol_map_entry).second) holds for
\* every entry of both maps
inserts_succeed(fm, vm) == fm.keys \cap vm.keys = {}

\* load(function_symbol_map, variables_symbol_map) and its load_
LoadFromMaps ==
  /\ pc = "start"
  /\ \E fm \in SymbolMaps, vm \in SymbolMaps,
        ord \in {<<S_foo, S_dot_foo>>, <<S_dot_foo, S_foo>>} :
       LET all == map_symbols(fm, "FUNC", ord) \o map_symbols(vm, "OBJECT", ord)
           h == [i \in 1..Len(all) |->
                   elf_symbol_create(0, all[i].name, all[i].type, "GLOBAL",
                                     TRUE, FALSE, all[i].ver, "DEFAULT", i)]
           ids(k) == SelectSeq([i \in 1..Len(all) |-> i], LAMBDA i : all[i].name = k)
       IN IF ~inserts_succeed(fm, vm)
          THEN /\ pc' = "aborted"
               /\ ret' = [op |-> "load_maps", ok |-> FALSE,
                          function_symbol_map |-> fm, variables_symbol_map |-> vm]
               /\ UNCHANGED <<elf, is_suppressed, idx, heap, sym_value, symtabVars,
                              exported_kernel_symbols, markers, supprVars, laterVars, result, filter_, iter>>
          ELSE /\ heap' = h
               /\ sym_value' = [i \in 1..Len(all) |-> Nil]
               /\ name_symbol_map_' = [k \in fm.keys \cup vm.keys |-> ids(k)]
               /\ \E sorted \in std_sort(h, [i \in 1..Len(all) |-> i]) :
                    symbols_' = sorted
               /\ pc' = "loaded"
               /\ result' = load_return(TRUE)
               /\ ret' = [op |-> "load_maps", ok |-> TRUE,
                          function_symbol_map |-> fm, variables_symbol_map |-> vm]
               /\ UNCHANGED <<elf, is_suppressed, idx, addr_symbol_map_,
                              entry_addr_symbol_map_, is_kernel_binary_,
                              has_ksymtab_entries_, exported_kernel_symbols, markers, supprVars, laterVars,
                              filter_, iter>>

-----------------------------------------------------------------------------
(* the caller's lookups in a loaded symtab *)

LookupNames == {S_foo, S_dot_foo, S_bar}
LookupAddrs == Addrs \cup {3}

LookupName ==
  /\ pc = "loaded"
  /\ \E name \in LookupNames :
       LET r == lookup_symbol_name(name_symbol_map_, name)
       IN /\ name_symbol_map_' = r.map
          /\ ret' = [op |-> "lookup_symbol_name", name |-> name, val |-> r.val]
  /\ UNCHANGED <<pc, elf, is_suppressed, idx, heap, sym_value, symbols_, addr_symbol_map_,
                 entry_addr_symbol_map_, is_kernel_binary_, has_ksymtab_entries_,
                 exported_kernel_symbols, markers, supprVars, laterVars, result, filter_, iter>>

LookupAddr ==
  /\ pc = "loaded"
  /\ \E a \in LookupAddrs :
       ret' = [op |-> "lookup_symbol_addr", addr |-> a,
               val |-> lookup_symbol_addr(addr_symbol_map_,
                                          entry_addr_symbol_map_, a)]
  /\ UNCHANGED <<pc, elf, is_suppressed, idx, heap, sym_value, symtabVars,
                 exported_kernel_symbols, markers, supprVars, laterVars, result, filter_, iter>>

\* symtab::has_symbols
has_symbols(kernel, ksymtab_entries, symbols) ==
  IF kernel THEN ksymtab_entries ELSE symbols # <<>>

HasSymbols ==
  /\ pc = "loaded"
  /\ ret' = [op |-> "has_symbols",
             val |-> has_symbols(is_kernel_binary_, has_ksymtab_entries_,
                                 symbols_)]
  /\ UNCHANGED <<pc, elf, is_suppressed, idx, heap, sym_value, symtabVars,
                 exported_kernel_symbols, markers, supprVars, laterVars, result, filter_, iter>>

Next == LoadBegin \/ ScanUnreadable \/ ScanEntry \/ LoadFinish
        \/ LoadFromMaps \/ LookupName \/ LookupAddr \/ HasSymbols

Spec == Init /\ [][Next]_vars

-----------------------------------------------------------------------------
(* symtab_filter, symtab_filter_builder, symtab::make_filter *)

optional_assign_keeping_flag(o, v) == [o EXCEPT !.value_ = v]

\* optional<bool>::operator=(const T&)
optional_assign(o, v) == [o EXCEPT !.has_value_ = TRUE, !.value_ = v]

\* the setters of symtab_filter_builder
functions(f, value) == [f EXCEPT !.functions_ = optional_assign(@, value)]
variables(f, value) == [f EXCEPT !.variables_ = optional_assign(@, value)]
public_symbols(f, value) ==
  [f EXCEPT !.public_symbols_ = optional_assign(@, value)]
undefined_symbols(f, value) ==
  [f EXCEPT !.undefined_symbols_ = optional_assign(@, value)]
kernel_symbols(f, value) ==
  [f EXCEPT !.kernel_symbols_ = optional_assign(@, value)]

make_filter_without_kernel(is_kernel_binary) ==
  public_symbols(default_filter, TRUE)

\* symtab::make_filter
make_filter(is_kernel_binary) ==
  LET builder == public_symbols(default_filter, TRUE)
  IN IF is_kernel_binary THEN kernel_symbols(builder, TRUE) ELSE builder

\* one test of symtab_filter::matches: the predicate o is set and its value
\* differs from the property of the symbol
mismatch(o, property) == o.has_value_ /\ o.value_ # property

\* the properties of the symbol that matches() reads, in the order of its tests
properties_read(f, h, symbol) ==
  LET s == h[symbol]
      t1 == f.functions_.has_value_
      r1 == mismatch(f.functions_, is_function(s))
      t2 == ~r1 /\ f.variables_.has_value_
      r2 == r1 \/ (t2 /\ mismatch(f.variables_, is_variable(s)))
      t3 == ~r2 /\ f.public_symbols_.has_value_
      r3 == r2 \/ (t3 /\ mismatch(f.public_symbols_, is_public(s)))
      t4 == ~r3 /\ f.undefined_symbols_.has_value_
      r4 == r3 \/ (t4 /\ f.undefined_symbols_.value_ = is_defined(s))
      t5 == ~r4 /\ f.kernel_symbols_.has_value_
  IN (IF t1 THEN {"is_function"} ELSE {})
     \cup (IF t2 THEN {"is_variable"} ELSE {})
     \cup (IF t3 THEN {"is_public"} ELSE {})
     \cup (IF t4 THEN {"is_defined"} ELSE {})
     \cup (IF t5 THEN {"is_in_ksymtab"} ELSE {})

any_predicate_set(f) ==
  \/ f.functions_.has_value_ \/ f.variables_.has_value_
  \/ f.public_symbols_.has_value_ \/ f.undefined_symbols_.has_value_
  \/ f.kernel_symbols_.has_value_

matches_unguarded(f, s) ==
  ~(\/ f.functions_.value_ # is_function(s)
    \/ f.variables_.value_ # is_variable(s)
    \/ f.public_symbols_.value_ # is_public(s)
    \/ f.undefined_symbols_.value_ = is_defined(s)
    \/ f.kernel_symbols_.value_ # is_in_ksymtab(s))

matches_undefined_as_defined(f, s) ==
  IF mismatch(f.functions_, is_function(s)) THEN FALSE
  ELSE IF mismatch(f.variables_, is_variable(s)) THEN FALSE
  ELSE IF mismatch(f.public_symbols_, is_public(s)) THEN FALSE
  ELSE IF mismatch(f.undefined_symbols_, is_defined(s)) THEN FALSE
  ELSE IF mismatch(f.kernel_symbols_, is_in_ksymtab(s)) THEN FALSE
  ELSE TRUE

\* symtab_filter::matches for a symbol that exists
matches(f, s) ==
  IF mismatch(f.functions_, is_function(s)) THEN FALSE
  ELSE IF mismatch(f.variables_, is_variable(s)) THEN FALSE
  ELSE IF mismatch(f.public_symbols_, is_public(s)) THEN FALSE
  ELSE IF f.undefined_symbols_.has_value_
          /\ f.undefined_symbols_.value_ = is_defined(s) THEN FALSE
  ELSE IF mismatch(f.kernel_symbols_, is_in_ksymtab(s)) THEN FALSE
  ELSE TRUE

\* what a call matches(symbol) can do: symbol is a heap id or Nil, the empty
\* elf_symbol_sptr; reading a property through the empty pointer is undefined
\* behaviour, after which the call may return either value or crash
matches_outcomes(f, h, symbol) ==
  IF symbol = Nil
  THEN IF any_predicate_set(f)
       THEN {[val |-> v, reads |-> {"null"}] : v \in {"true", "false", "crash"}}
       ELSE {[val |-> IF matches(f, [type |-> "NOTYPE", binding |-> "LOCAL",
                                      visibility |-> "DEFAULT",
                                      is_defined |-> FALSE,
                                      is_in_ksymtab |-> FALSE])
                      THEN "true" ELSE "false",
              reads |-> {}]}
  ELSE {[val |-> IF matches(f, h[symbol]) THEN "true" ELSE "false",
         reads |-> properties_read(f, h, symbol)]}

-----------------------------------------------------------------------------
(* symtab_iterator *)

\* length of the symbol sequence that is iterated
MaxIterSyms == 2

RECURSIVE skip_to_next(_, _, _, _, _)
RECURSIVE increment(_, _, _, _, _)

skip_to_next_nowhere(f, h, syms, end_, pos) == pos

\* symtab_iterator::skip_to_next: pos is the position of the base iterator
skip_to_next(f, h, syms, end_, pos) ==
  IF pos # end_ /\ ~matches(f, h[syms[pos]])
  THEN skip_to_next(f, h, syms, end_, increment(f, h, syms, end_, pos))
  ELSE pos

\* symtab_iterator::operator++
increment(f, h, syms, end_, pos) == skip_to_next(f, h, syms, end_, pos + 1)

\* symtab::begin(filter)
begin(f, h, syms) ==
  [pos |-> skip_to_next(f, h, syms, Len(syms) + 1, 1), end_ |-> Len(syms) + 1]

\* symtab::end(): its position
end(syms) == Len(syms) + 1

-----------------------------------------------------------------------------
(* The caller that builds a filter, tests symbols and iterates *)

\* the symbols a filter is tested on
FilterSymbols ==
  { [elf_symbol_create(0, S_foo, x.type, x.binding, x.is_defined, FALSE,
                       S_empty, x.visibility, 1)
       EXCEPT !.is_in_ksymtab = x.is_in_ksymtab] :
      x \in [type : {"FUNC", "OBJECT", "NOTYPE"},
             binding : {"GLOBAL", "LOCAL"},
             visibility : {"DEFAULT", "HIDDEN"},
             is_defined : BOOLEAN,
             is_in_ksymtab : BOOLEAN] }

\* the symbols of the sequences that are iterated: a public function, an
\* undefined function, a local variable and a variable exported by a kernel
IterSymbols ==
  { s \in FilterSymbols :
      \/ (s.type = "FUNC" /\ s.binding = "GLOBAL" /\ s.visibility = "DEFAULT"
          /\ ~s.is_in_ksymtab)
      \/ (s.type = "OBJECT" /\ s.binding = "LOCAL" /\ s.visibility = "DEFAULT"
          /\ s.is_defined /\ ~s.is_in_ksymtab)
      \/ (s.type = "OBJECT" /\ s.binding = "GLOBAL" /\ s.visibility = "DEFAULT"
          /\ s.is_defined /\ s.is_in_ksymtab) }

\* a loaded symtab with the symbols h, all of them in the ordered sequence
InitLoaded(h, kernel) ==
  /\ pc = "filter"
  /\ elf = NoElf
  /\ is_suppressed = NoPredicate
  /\ idx = 0
  /\ heap = h
  /\ sym_value = [i \in 1..Len(h) |-> Nil]
  /\ symbols_ = [i \in 1..Len(h) |-> i]
  /\ name_symbol_map_ =
       IF h = <<>> THEN EmptyMap ELSE (S_foo :> [i \in 1..Len(h) |-> i])
  /\ addr_symbol_map_ = EmptyMap
  /\ entry_addr_symbol_map_ = EmptyMap
  /\ exported_kernel_symbols = {}
  /\ markers = {}
  /\ is_kernel_binary_ = kernel
  /\ has_ksymtab_entries_ = (\E i \in 1..Len(h) : h[i].is_in_ksymtab)
  /\ result = "symtab"
  /\ ret = NoRet
  /\ filter_ = default_filter
  /\ iter = NoIter
  /\ NoSuppr

InitFilter ==
  \E s \in FilterSymbols, kernel \in BOOLEAN :
    /\ s.is_in_ksymtab => kernel
    /\ InitLoaded(<<s>>, kernel)

SeqsUpTo(S, n) == UNION {[1..k -> S] : k \in 0..n}

InitIter ==
  \E h \in SeqsUpTo(IterSymbols, MaxIterSyms), kernel \in BOOLEAN :
    /\ (\E i \in 1..Len(h) : h[i].is_in_ksymtab) => kernel
    /\ InitLoaded(h, kernel)

filterFrame == <<pc, elf, is_suppressed, idx, heap, sym_value, symtabVars,
                 exported_kernel_symbols, markers, supprVars, laterVars, result, iter>>

\* tab->make_filter()
MakeFilter ==
  /\ pc = "filter"
  /\ filter_' = make_filter(is_kernel_binary_)
  /\ ret' = [op |-> "make_filter"]
  /\ UNCHANGED filterFrame

Functions ==
  /\ pc = "filter"
  /\ \E value \in BOOLEAN :
       /\ filter_' = functions(filter_, value)
       /\ ret' = [op |-> "functions", value |-> value]
  /\ UNCHANGED filterFrame

Variables ==
  /\ pc = "filter"
  /\ \E value \in BOOLEAN :
       /\ filter_' = variables(filter_, value)
       /\ ret' = [op |-> "variables", value |-> value]
  /\ UNCHANGED filterFrame

PublicSymbols ==
  /\ pc = "filter"
  /\ \E value \in BOOLEAN :
       /\ filter_' = public_symbols(filter_, value)
       /\ ret' = [op |-> "public_symbols", value |-> value]
  /\ UNCHANGED filterFrame

UndefinedSymbols ==
  /\ pc = "filter"
  /\ \E value \in BOOLEAN :
       /\ filter_' = undefined_symbols(filter_, value)
       /\ ret' = [op |-> "undefined_symbols", value |-> value]
  /\ UNCHANGED filterFrame

KernelSymbols ==
  /\ pc = "filter"
  /\ \E value \in BOOLEAN :
       /\ filter_' = kernel_symbols(filter_, value)
       /\ ret' = [op |-> "kernel_symbols", value |-> value]
  /\ UNCHANGED filterFrame

\* filter.matches(symbol), for a symbol of the symtab or the empty pointer
Matches ==
  /\ pc = "filter"
  /\ \E symbol \in {Nil} \cup (1..Len(heap)) :
       \E out \in matches_outcomes(filter_, heap, symbol) :
         ret' = [op |-> "matches", symbol |-> symbol, val |-> out.val,
                 reads |-> out.reads]
  /\ UNCHANGED <<filter_, filterFrame>>

\* what the caller's loop has dereferenced, with the symbol at pos added
deref(seen, pos, end_) ==
  IF pos # end_ THEN Append(seen, symbols_[pos]) ELSE seen

\* I = tab->begin(filter), and *I unless I == tab->end()
Begin ==
  /\ pc = "filter"
  /\ pc' = "iter"
  /\ iter' = begin(filter_, heap, symbols_)
  /\ ret' = [op |-> "iterate", incs |-> 0,
             seen |-> deref(<<>>, iter'.pos, end(symbols_))]
  /\ UNCHANGED <<elf, is_suppressed, idx, heap, sym_value, symtabVars,
                 exported_kernel_symbols, markers, supprVars, laterVars, result, filter_>>

\* ++I while I != tab->end(), and *I unless I == tab->end()
Increment ==
  /\ pc = "iter"
  /\ iter.pos # end(symbols_)
  /\ iter' = [iter EXCEPT !.pos = increment(filter_, heap, symbols_,
                                            iter.end_, iter.pos)]
  /\ ret' = [op |-> "iterate", incs |-> ret.incs + 1,
             seen |-> deref(ret.seen, iter'.pos, end(symbols_))]
  /\ UNCHANGED <<pc, elf, is_suppressed, idx, heap, sym_value, symtabVars,
                 exported_kernel_symbols, markers, supprVars, laterVars, result, filter_>>

NextFilter ==
  \/ MakeFilter \/ Functions \/ Variables \/ PublicSymbols
  \/ UndefinedSymbols \/ KernelSymbols \/ Matches \/ Begin \/ Increment

SpecFilter == InitFilter /\ [][NextFilter]_vars

SpecIter == InitIter /\ [][NextFilter]_vars

-----------------------------------------------------------------------------
(* Properties of the filter and of the iterator *)

\* the symbols of the ordered sequence that the filter matches, in its order
Matching == SelectSeq(symbols_, LAMBDA id : matches(filter_, heap[id]))

\* C2: iterating from begin(filter) to end() yields the symbols of the ordered
\* sequence that the filter matches, in order and once each, takes as many
\* increments as there are such symbols, and never yields another symbol
C2_IterationYieldsTheMatchingSymbols ==
  pc = "iter" =>
    /\ \A k \in 1..Len(ret.seen) : matches(filter_, heap[ret.seen[k]])
    /\ Len(ret.seen) <= Len(Matching)
    /\ ret.seen = SubSeq(Matching, 1, Len(ret.seen))
    /\ ret.incs <= Len(Matching)
    /\ iter.pos = end(symbols_) =>
         (ret.seen = Matching /\ ret.incs = Len(Matching))
    /\ iter.pos # end(symbols_) =>
         (/\ ret.incs = Len(ret.seen) - 1
          /\ ret.seen[Len(ret.seen)] = symbols_[iter.pos])

\* the iteration ended after it skipped the first symbol and yielded the second
C2_Witness ==
  /\ pc = "iter"
  /\ iter.pos = end(symbols_)
  /\ Len(symbols_) = 2
  /\ ret.seen = <<symbols_[2]>>
  /\ ret.incs = 1

\* the property of the symbol that each predicate of a filter is about
PropertyOf(s) ==
  [functions_ |-> is_function(s), variables_ |-> is_variable(s),
   public_symbols_ |-> is_public(s), undefined_symbols_ |-> ~is_defined(s),
   kernel_symbols_ |-> is_in_ksymtab(s)]

PredicateNames == DOMAIN default_filter

\* C3: matches(s) is true iff every predicate that is set has the value of the
\* property of s it is about; with only functions(true) and
\* public_symbols(true) set these are the public functions
C3_MatchesIsConjunctionOfSetPredicates ==
  (ret.op = "matches" /\ ret.symbol # Nil) =>
    LET s == heap[ret.symbol]
    IN /\ ret.val \in {"true", "false"}
       /\ (ret.val = "true") <=>
            \A p \in PredicateNames :
              filter_[p].has_value_ => filter_[p].value_ = PropertyOf(s)[p]
       /\ filter_ = [default_filter EXCEPT !.functions_ = optional_of(TRUE),
                                           !.public_symbols_ = optional_of(TRUE)]
            => ((ret.val = "true") <=> (is_function(s) /\ is_public(s)))

\* a filter with a predicate set to false and one set to true matched
C3_Witness ==
  /\ ret.op = "matches" /\ ret.symbol # Nil
  /\ ret.val = "true"
  /\ filter_.undefined_symbols_ = optional_of(TRUE)
  /\ filter_.variables_ = optional_of(FALSE)
  /\ ~filter_.public_symbols_.has_value_

\* C4: a filter on which no predicate was set matches every symbol and the
\* empty symbol pointer, without reading a property of the symbol
C4_DefaultFilterMatchesAnything ==
  (ret.op = "matches" /\ filter_ = default_filter) =>
    (ret.val = "true" /\ ret.reads = {})

\* the default filter was asked about the empty pointer
C4_Witness ==
  /\ ret.op = "matches"
  /\ filter_ = default_filter
  /\ ret.symbol = Nil
  /\ ret.val = "true"

\* C5: make_filter() sets public_symbols to true, kernel_symbols to true iff
\* the symtab is of a kernel binary, and nothing else; a setter sets its
\* predicate to the value of the call and changes no other predicate
C5_MakeFilterDefaultsAndSetterFrame ==
  [][/\ ret'.op = "make_filter" =>
          filter_' = [default_filter EXCEPT
                        !.public_symbols_ = optional_of(TRUE),
                        !.kernel_symbols_ = IF is_kernel_binary_
                                            THEN optional_of(TRUE)
                                            ELSE optional_empty]
     /\ ret'.op = "functions" =>
          filter_' = [filter_ EXCEPT !.functions_ = optional_of(ret'.value)]
     /\ ret'.op = "variables" =>
          filter_' = [filter_ EXCEPT !.variables_ = optional_of(ret'.value)]
     /\ ret'.op = "public_symbols" =>
          filter_' = [filter_ EXCEPT !.public_symbols_ = optional_of(ret'.value)]
     /\ ret'.op = "undefined_symbols" =>
          filter_' = [filter_ EXCEPT !.undefined_symbols_ = optional_of(ret'.value)]
     /\ ret'.op = "kernel_symbols" =>
          filter_' = [filter_ EXCEPT !.kernel_symbols_ = optional_of(ret'.value)]
    ]_vars

\* the default of a kernel symtab was overridden by kernel_symbols(false)
C5_Witness ==
  /\ is_kernel_binary_
  /\ ret.op = "kernel_symbols"
  /\ filter_ = [default_filter EXCEPT !.public_symbols_ = optional_of(TRUE),
                                      !.kernel_symbols_ = optional_of(FALSE)]

-----------------------------------------------------------------------------
(* Properties of symtab::load and of the lookups *)

\* the load that completed was a load from an ELF handle
LoadedFromElf == pc = "loaded" /\ load_can_start(elf)

IdStrings(s) == [i \in 1..Len(s) |-> get_id_string(heap[s[i]])]

\* the symbols load_ created, in the order in which they were scanned
KeptIds == 1..Len(heap)

\* C1: after a successful load from an ELF handle, a kept symbol is in the
\* ordered sequence iff the predicate did not answer true for it, it is flagged
\* suppressed otherwise, and lookup_symbol(its name) returns it in both cases
C1_SuppressedLeftOutButLookedUp ==
  LoadedFromElf =>
    \A id \in KeptIds :
      /\ (id \in Range(symbols_))
           <=> ~(is_suppressed.set /\ predicate_answer(is_suppressed, heap[id]))
      /\ heap[id].is_suppressed <=> (id \notin Range(symbols_))
      /\ id \in Range(lookup_symbol_name(name_symbol_map_, heap[id].name).val)

C1_Witness ==
  /\ LoadedFromElf
  /\ \E a \in KeptIds, b \in KeptIds :
       /\ heap[a].is_suppressed /\ a \notin Range(symbols_)
       /\ ~heap[b].is_suppressed /\ b \in Range(symbols_)

\* C6: after a successful load, from an ELF handle or from maps, the ordered
\* sequence is in non-decreasing order of id-string
C6_SymbolsSorted ==
  pc = "loaded" =>
    \A i \in 1..(Len(symbols_) - 1) :
      ~StrLess(get_id_string(heap[symbols_[i + 1]]),
               get_id_string(heap[symbols_[i]]))

\* a load that had to reorder: the symbol scanned later comes first
C6_Witness ==
  /\ pc = "loaded"
  /\ Len(symbols_) >= 2
  /\ symbols_[1] > symbols_[2]
  /\ get_id_string(heap[symbols_[1]]) # get_id_string(heap[symbols_[2]])

\* C7 as claimed: the sort is stable, kept symbols with equal id-strings stay
\* in the order in which they were scanned
C7_SortIsStable ==
  LoadedFromElf =>
    \A i \in 1..Len(symbols_) : \A j \in 1..Len(symbols_) :
      (i < j /\ get_id_string(heap[symbols_[i]]) = get_id_string(heap[symbols_[j]]))
        => symbols_[i] < symbols_[j]

\* C7 as amended: the ordered sequence is a permutation of the symbols that
\* were not suppressed, in non-decreasing order of id-string, and sorting it
\* again leaves its sequence of id-strings unchanged
C7_SortedPermutation ==
  LoadedFromElf =>
    /\ Len(symbols_) = Cardinality(Range(symbols_))
    /\ Range(symbols_) = {id \in KeptIds : ~heap[id].is_suppressed}
    /\ \A i \in 1..Len(symbols_) : \A j \in 1..Len(symbols_) :
         i < j => ~StrLess(get_id_string(heap[symbols_[j]]),
                           get_id_string(heap[symbols_[i]]))
    /\ \A again \in std_sort(heap, symbols_) : IdStrings(again) = IdStrings(symbols_)

\* two kept symbols with the same id-string, and one with another
C7_Witness ==
  /\ LoadedFromElf
  /\ \E i \in 1..Len(symbols_), j \in 1..Len(symbols_) :
       /\ i # j
       /\ get_id_string(heap[symbols_[i]]) = get_id_string(heap[symbols_[j]])

\* C8: a load from an ELF handle that fails hands an empty pointer to the
\* caller, and only a completed load hands out the symtab
C8_FailedLoadReturnsNull ==
  /\ pc = "failed" => result = "null"
  /\ result = "symtab" => pc = "loaded"

\* the load failed at an entry, after symbols had been collected
C8_Witness ==
  /\ pc = "failed"
  /\ Len(symbols_) > 0
  /\ DOMAIN name_symbol_map_ # {}

\* C9: a lookup that misses returns the empty vector, or the empty pointer,
\* and no lookup changes the ordered sequence or a lookup map
C9_LookupMissIsEmptyAndPure ==
  [][pc = "loaded" =>
       /\ UNCHANGED <<symbols_, name_symbol_map_, addr_symbol_map_,
                      entry_addr_symbol_map_>>
       /\ (ret'.op = "lookup_symbol_name" /\ ~Find(name_symbol_map_, ret'.name))
            => ret'.val = <<>>
       /\ (/\ ret'.op = "lookup_symbol_addr"
           /\ ~Find(addr_symbol_map_, ret'.addr)
           /\ ~Find(entry_addr_symbol_map_, ret'.addr))
            => ret'.val = Nil]_vars

\* a name lookup missed in a symtab that has names
C9_Witness ==
  /\ pc = "loaded"
  /\ ret.op = "lookup_symbol_name"
  /\ name_symbol_map_ # EmptyMap
  /\ ~Find(name_symbol_map_, ret.name)
  /\ ret.val = <<>>

\* the defined, non-common symbols that were given the address a
SymbolsAt(a) ==
  {id \in KeptIds : is_defined(heap[id]) /\ ~is_common_symbol(heap[id])
                    /\ sym_value[id] = a}

FirstAt(a) == CHOOSE id \in SymbolsAt(a) : \A o \in SymbolsAt(a) : id <= o

-----------------------------------------------------------------------------
(* Properties of the load of a Linux kernel binary *)

\* the load that completed was the load of a Linux kernel binary
LoadedKernel == LoadedFromElf /\ elf.is_kernel

\* C11: after the load of a Linux kernel binary, a symbol is flagged as being
\* in the ksymtab iff it is public and a marker entry __ksymtab_<its name> was
\* read, before or after the symbol; no marker entry became a symbol, so none
\* is in the ordered sequence or in a lookup map
C11_KsymtabFlagIffPublicAndMarked ==
  LoadedKernel =>
    /\ \A id \in KeptIds :
         is_in_ksymtab(heap[id])
           <=> (is_public(heap[id])
                /\ (S_ksymtab_prefix \o heap[id].name) \in markers)
    /\ \A id \in KeptIds : ~StartsWith(heap[id].name, S_ksymtab_prefix)
    /\ \A n \in DOMAIN name_symbol_map_ : ~StartsWith(n, S_ksymtab_prefix)
    /\ Range(symbols_) \subseteq KeptIds
    /\ \A n \in DOMAIN name_symbol_map_ : Range(name_symbol_map_[n]) \subseteq KeptIds
    /\ \A a \in DOMAIN addr_symbol_map_ : addr_symbol_map_[a] \in KeptIds
    /\ \A a \in DOMAIN entry_addr_symbol_map_ : entry_addr_symbol_map_[a] \in KeptIds

\* a public symbol was flagged by a marker that was read after it
C11_Witness ==
  /\ LoadedKernel
  /\ idx = 2
  /\ markers = {S_ksymtab_foo}
  /\ Len(heap) = 1
  /\ heap[1].index = 0
  /\ is_in_ksymtab(heap[1])

-----------------------------------------------------------------------------
(* Properties of the load of a ppc64 ELFv1 binary *)

\* the defined function symbols named name
FunctionsNamed(name) ==
  {id \in KeptIds : /\ heap[id].name = name
                    /\ is_function(heap[id])
                    /\ is_defined(heap[id]) /\ ~is_common_symbol(heap[id])}

\* the entry point address of the function symbol id
EntryAddressOf(id) == lookup_ppc64_elf_fn_entry_point_address(elf, sym_value[id])

\* C12: after the load of a ppc64 ELFv1 binary in which a function symbol foo,
\* whose value is a function descriptor in .opd, and a symbol .foo have the
\* same function entry address, lookup_symbol(that address) returns foo
C12_EntryAddressResolvesToFoo ==
  (LoadedFromElf /\ elf.is_ppc64) =>
    \A f \in FunctionsNamed(S_foo), d \in FunctionsNamed(S_dot_foo) :
      (/\ address_is_in_opd_section(elf, sym_value[f])
       /\ EntryAddressOf(d) = EntryAddressOf(f))
        => LET r == lookup_symbol_addr(addr_symbol_map_, entry_addr_symbol_map_,
                                       EntryAddressOf(f))
           IN r # Nil /\ heap[r].name = S_foo

-----------------------------------------------------------------------------
(* Properties of the load from a pair of symbol maps *)

\* what the loaded symtab holds under the name k: name, type and version of
\* each symbol of the vector
EntryLoaded(k) ==
  [i \in 1..Len(name_symbol_map_[k]) |->
     [name |-> heap[name_symbol_map_[k][i]].name,
      type |-> heap[name_symbol_map_[k][i]].type,
      ver |-> heap[name_symbol_map_[k][i]].version]]

\* C13: a load from a function symbol map and a variable symbol map ends in an
\* assertion failure, and hands nothing to the caller, when a name is a key of
\* both maps; otherwise it succeeds, the name map holds exactly the entries of
\* both maps and the ordered sequence holds each of their symbols once
C13_MapLoadAssertsDisjointKeys ==
  ret.op = "load_maps" =>
    LET fm == ret.function_symbol_map
        vm == ret.variables_symbol_map
    IN IF fm.keys \cap vm.keys # {}
       THEN pc = "aborted" /\ result = "none"
       ELSE /\ pc = "loaded" /\ result = "symtab"
            /\ DOMAIN name_symbol_map_ = fm.keys \cup vm.keys
            /\ \A k \in fm.keys : EntryLoaded(k) = map_entry(fm, "FUNC", k)
            /\ \A k \in vm.keys : EntryLoaded(k) = map_entry(vm, "OBJECT", k)
            /\ Len(symbols_) = Cardinality(Range(symbols_))
            /\ Range(symbols_) =
                 UNION {Range(name_symbol_map_[k]) : k \in DOMAIN name_symbol_map_}
            /\ Len(symbols_) = Cardinality(fm.keys) * Len(fm.vers)
                               + Cardinality(vm.keys) * Len(vm.vers)

\* the load stopped at the assertion: both maps have the key foo
C13_Witness ==
  /\ ret.op = "load_maps"
  /\ pc = "aborted"
  /\ S_foo \in ret.function_symbol_map.keys \cap ret.variables_symbol_map.keys

-----------------------------------------------------------------------------
(* regcomp() and regexec() with REG_EXTENDED, for the expressions used here: *)
(* characters, '.', a postfix '*', a leading '^', a trailing '$'; an         *)
(* expression with an unmatched parenthesis does not compile                 *)

S_re_any == <<46, 42>>
S_re_bar_anchored == <<94, 98, 97, 114, 36>>
S_re_bad == <<40>>

\* the parentheses of str[from..] are matched, open being the number of those
\* that are open so far
RECURSIVE parens_match(_, _)
parens_match(str, open) ==
  IF str = <<>> THEN open = 0
  ELSE IF Head(str) = 40 THEN parens_match(Tail(str), open + 1)
  ELSE IF Head(str) = 41 THEN open > 0 /\ parens_match(Tail(str), open - 1)
  ELSE parens_match(Tail(str), open)

\* regcomp(r, str, REG_EXTENDED) == 0
regcomp(str) == parens_match(str, 0)

RECURSIVE match_here(_, _)
RECURSIVE match_star(_, _, _)

\* the expression re matches at the beginning of text
match_here(re, text) ==
  IF re = <<>> THEN TRUE
  ELSE IF Len(re) >= 2 /\ re[2] = 42
       THEN match_star(re[1], SubSeq(re, 3, Len(re)), text)
  ELSE IF re = <<36>> THEN text = <<>>
  ELSE IF text # <<>> /\ (re[1] = 46 \/ re[1] = text[1])
       THEN match_here(Tail(re), Tail(text))
  ELSE FALSE

\* c* followed by re matches at the beginning of text
match_star(c, re, text) ==
  \/ match_here(re, text)
  \/ (text # <<>> /\ (c = 46 \/ c = text[1]) /\ match_star(c, re, Tail(text)))

\* regexec(re, text, 0, NULL, 0) == 0: the expression matches somewhere in text
regexec(re, text) ==
  IF re # <<>> /\ re[1] = 94 THEN match_here(Tail(re), text)
  ELSE \E i \in 0..Len(text) : match_here(re, Substr(text, i))

\* sptr_utils::regex_t_sptr: empty, or the owner of a compiled expression
null_regex == [ptr |-> FALSE, re |-> S_empty]
regex_of(str) == [ptr |-> TRUE, re |-> str]

-----------------------------------------------------------------------------
(* suppression_base::priv and the regex members of the suppressions *)

\* the regex members that are compiled lazily, each with the member that holds
\* its string
RegexMembers ==
  {"file_name_regex_", "file_name_not_regex_", "soname_regex_",
   "soname_not_regex_", "name_regex_", "symbol_name_regex_"}

regex_str(s, member) ==
  CASE member = "file_name_regex_" -> s.file_name_regex_str_
    [] member = "file_name_not_regex_" -> s.file_name_not_regex_str_
    [] member = "soname_regex_" -> s.soname_regex_str_
    [] member = "soname_not_regex_" -> s.soname_not_regex_str_
    [] member = "name_regex_" -> s.name_regex_str_
    [] member = "symbol_name_regex_" -> s.symbol_name_regex_str_

lazy_regex_storing_failed(s, member) ==
  IF ~s[member].ptr /\ regex_str(s, member) # S_empty
  THEN [s |-> [s EXCEPT ![member] = regex_of(regex_str(s, member))],
        val |-> regex_of(regex_str(s, member)), compiled |-> {member}]
  ELSE [s |-> s, val |-> s[member], compiled |-> {}]

lazy_regex_recompiling(s, member) ==
  IF regex_str(s, member) # S_empty
  THEN IF regcomp(regex_str(s, member))
       THEN [s |-> [s EXCEPT ![member] = regex_of(regex_str(s, member))],
             val |-> regex_of(regex_str(s, member)), compiled |-> {member}]
       ELSE [s |-> s, val |-> s[member], compiled |-> {member}]
  ELSE [s |-> s, val |-> s[member], compiled |-> {}]

\* the body shared by the lazy getters: the suppression after the call, the
\* pointer returned, and the member for which regcomp was called, if any
lazy_regex(s, member) ==
  IF ~s[member].ptr /\ regex_str(s, member) # S_empty
  THEN IF regcomp(regex_str(s, member))
       THEN [s |-> [s EXCEPT ![member] = regex_of(regex_str(s, member))],
             val |-> regex_of(regex_str(s, member)), compiled |-> {member}]
       ELSE [s |-> s, val |-> s[member], compiled |-> {member}]
  ELSE [s |-> s, val |-> s[member], compiled |-> {}]

get_file_name_regex(s) == lazy_regex(s, "file_name_regex_")
get_file_name_not_regex(s) == lazy_regex(s, "file_name_not_regex_")
get_soname_regex(s) == lazy_regex(s, "soname_regex_")
get_soname_not_regex(s) == lazy_regex(s, "soname_not_regex_")
\* function_suppression::priv::get_name_regex and get_symbol_name_regex, and
\* those of variable_suppression::priv
get_name_regex(s) == lazy_regex(s, "name_regex_")
get_symbol_name_regex(s) == lazy_regex(s, "symbol_name_regex_")

matches_soname_without_criteria_check(s, soname) ==
  LET g1 == get_soname_regex(s)
  IN IF g1.val.ptr /\ ~regexec(g1.val.re, soname)
     THEN [s |-> g1.s, val |-> FALSE, compiled |-> g1.compiled]
     ELSE LET g2 == get_soname_not_regex(g1.s)
          IN [s |-> g2.s,
              val |-> ~(g2.val.ptr /\ regexec(g2.val.re, soname)),
              compiled |-> g1.compiled \cup g2.compiled]

matches_soname_failing_closed(s, soname) ==
  LET g1 == get_soname_regex(s)
      g2 == get_soname_not_regex(g1.s)
  IN IF (s.soname_regex_str_ # S_empty /\ ~g1.val.ptr)
        \/ (s.soname_not_regex_str_ # S_empty /\ ~g2.val.ptr)
     THEN [s |-> g2.s, val |-> FALSE, compiled |-> g1.compiled \cup g2.compiled]
     ELSE [s |-> g2.s,
           val |-> /\ (g1.val.ptr \/ g2.val.ptr)
                   /\ (g1.val.ptr => regexec(g1.val.re, soname))
                   /\ (g2.val.ptr => ~regexec(g2.val.re, soname)),
           compiled |-> g1.compiled \cup g2.compiled]

\* suppression_base::priv::matches_soname: the suppression after the call, the
\* value returned, and the members for which regcomp was called
matches_soname(s, soname) ==
  LET g1 == get_soname_regex(s)
  IN IF g1.val.ptr /\ ~regexec(g1.val.re, soname)
     THEN [s |-> g1.s, val |-> FALSE, compiled |-> g1.compiled]
     ELSE LET g2 == get_soname_not_regex(g1.s)
              has_regexp == g1.val.ptr \/ g2.val.ptr
          IN [s |-> g2.s,
              val |-> IF g2.val.ptr /\ regexec(g2.val.re, soname) THEN FALSE
                      ELSE IF ~has_regexp THEN FALSE
                      ELSE TRUE,
              compiled |-> g1.compiled \cup g2.compiled]

\* suppression_base::priv::matches_binary_name
matches_binary_name(s, binary_name) ==
  LET g1 == get_file_name_regex(s)
  IN IF g1.val.ptr /\ ~regexec(g1.val.re, binary_name)
     THEN [s |-> g1.s, val |-> FALSE, compiled |-> g1.compiled]
     ELSE LET g2 == get_file_name_not_regex(g1.s)
              has_regexp == g1.val.ptr \/ g2.val.ptr
          IN [s |-> g2.s,
              val |-> IF g2.val.ptr /\ regexec(g2.val.re, binary_name) THEN FALSE
                      ELSE IF ~has_regexp THEN FALSE
                      ELSE TRUE,
              compiled |-> g1.compiled \cup g2.compiled]

-----------------------------------------------------------------------------
(* The caller that asks one suppression about sonames and file names *)

\* calls of regcomp for one regex member that are followed
MaxCompiles == 2

\* the regex strings of a suppression specification
RegexStrings == {S_empty, S_foo, S_re_any, S_re_bar_anchored, S_re_bad}

\* the sonames and file names a suppression is asked about
MatchInputs == {S_empty, S_foo, S_dot_foo, S_bar}

\* a suppression as its constructor leaves it: no regex is compiled
new_suppression(kind, drops, label, fn, fn_not, so, so_not, name, name_regex, symbol_name, symbol_name_regex, type_name) ==
  [kind |-> kind, drops_artifact_ |-> drops, label_ |-> label,
   file_name_regex_str_ |-> fn, file_name_regex_ |-> null_regex,
   file_name_not_regex_str_ |-> fn_not, file_name_not_regex_ |-> null_regex,
   soname_regex_str_ |-> so, soname_regex_ |-> null_regex,
   soname_not_regex_str_ |-> so_not, soname_not_regex_ |-> null_regex,
   name_ |-> name, name_regex_str_ |-> name_regex, name_regex_ |-> null_regex,
   symbol_name_ |-> symbol_name,
   symbol_name_regex_str_ |-> symbol_name_regex,
   symbol_name_regex_ |-> null_regex,
   type_name_ |-> type_name]

\* the pairs of regex strings of one axis that leave the other axis free
FewPairs == {<<S_empty, S_empty>>, <<S_foo, S_empty>>, <<S_re_bad, S_foo>>}

\* the suppressions that are asked: every pair of strings on one axis, with
\* few pairs on the other, and every string as the name regex
AskedSuppressions ==
  { new_suppression("function", FALSE, S_empty, f[1], f[2], o[1], o[2],
                    S_empty, S_empty, S_empty, S_empty, S_empty) :
      f \in RegexStrings \X RegexStrings, o \in FewPairs }
  \cup
  { new_suppression("function", FALSE, S_empty, f[1], f[2], o[1], o[2],
                    S_empty, S_empty, S_empty, S_empty, S_empty) :
      f \in FewPairs, o \in RegexStrings \X RegexStrings }
  \cup
  { new_suppression("function", FALSE, S_empty, S_empty, S_empty, S_empty,
                    S_empty, S_empty, n, S_empty, S_empty, S_empty) :
      n \in RegexStrings }

InitSuppr ==
  /\ pc = "suppr"
  /\ elf = NoElf
  /\ is_suppressed = NoPredicate
  /\ idx = 0
  /\ heap = <<>>
  /\ sym_value = <<>>
  /\ symbols_ = <<>>
  /\ name_symbol_map_ = EmptyMap
  /\ addr_symbol_map_ = EmptyMap
  /\ entry_addr_symbol_map_ = EmptyMap
  /\ exported_kernel_symbols = {}
  /\ markers = {}
  /\ is_kernel_binary_ = FALSE
  /\ has_ksymtab_entries_ = FALSE
  /\ result = "none"
  /\ ret = NoRet
  /\ filter_ = default_filter
  /\ iter = NoIter
  /\ \E s \in AskedSuppressions : suppressions = <<s>>
  /\ regcomp_calls = <<[m \in RegexMembers |-> 0]>>
  /\ type_is_private = FALSE
  /\ corpus = <<>>
  /\ report = [op |-> "none"]
  /\ NoLater

\* the variables of the symtab reader and of its caller, but for ret
readerVars == <<pc, elf, is_suppressed, idx, heap, sym_value, symtabVars,
                exported_kernel_symbols, markers, result, filter_, iter>>

\* the calls of regcomp after a call that compiled the members compiled
count_regcomp(calls, compiled) ==
  [m \in RegexMembers |-> IF m \in compiled THEN calls[m] + 1 ELSE calls[m]]

\* a call made on suppression 1 with the outcome r is followed
Asked(r, op, arg) ==
  /\ \A m \in r.compiled : regcomp_calls[1][m] < MaxCompiles
  /\ suppressions' = [suppressions EXCEPT ![1] = r.s]
  /\ regcomp_calls' = [regcomp_calls EXCEPT ![1] = count_regcomp(@, r.compiled)]
  /\ ret' = [op |-> op, arg |-> arg, val |-> r.val, compiled |-> r.compiled]
  /\ UNCHANGED <<readerVars, laterVars, type_is_private, corpus, report>>

MatchesSoname ==
  /\ pc = "suppr"
  /\ \E soname \in MatchInputs :
       Asked(matches_soname(suppressions[1], soname), "matches_soname", soname)

MatchesBinaryName ==
  /\ pc = "suppr"
  /\ \E binary_name \in MatchInputs :
       Asked(matches_binary_name(suppressions[1], binary_name),
             "matches_binary_name", binary_name)

GetFileNameRegex ==
  /\ pc = "suppr"
  /\ Asked(get_file_name_regex(suppressions[1]), "get", "file_name_regex_")

GetFileNameNotRegex ==
  /\ pc = "suppr"
  /\ Asked(get_file_name_not_regex(suppressions[1]), "get", "file_name_not_regex_")

GetSonameRegex ==
  /\ pc = "suppr"
  /\ Asked(get_soname_regex(suppressions[1]), "get", "soname_regex_")

GetSonameNotRegex ==
  /\ pc = "suppr"
  /\ Asked(get_soname_not_regex(suppressions[1]), "get", "soname_not_regex_")

GetNameRegex ==
  /\ pc = "suppr"
  /\ Asked(get_name_regex(suppressions[1]), "get", "name_regex_")

NextSuppr ==
  \/ MatchesSoname \/ MatchesBinaryName \/ GetFileNameRegex
  \/ GetFileNameNotRegex \/ GetSonameRegex \/ GetSonameNotRegex \/ GetNameRegex

SpecSuppr == InitSuppr /\ [][NextSuppr]_vars

-----------------------------------------------------------------------------
(* Properties of the regex matchers of a suppression *)

\* the suppression that is asked
Asked1 == suppressions[1]

\* the regex string str is not empty and does not compile
Malformed(str) == str # S_empty /\ ~regcomp(str)

\* the regex string str is not empty and compiles
Compiles(str) == str # S_empty /\ regcomp(str)

\* C14: matches_soname and matches_binary_name return false for every input,
\* the empty string included, when the suppression has neither a regex string
\* nor a not-regex string for the axis
C14_NoCriteriaNeverMatches ==
  /\ (/\ ret.op = "matches_soname"
      /\ Asked1.soname_regex_str_ = S_empty
      /\ Asked1.soname_not_regex_str_ = S_empty) => ret.val = FALSE
  /\ (/\ ret.op = "matches_binary_name"
      /\ Asked1.file_name_regex_str_ = S_empty
      /\ Asked1.file_name_not_regex_str_ = S_empty) => ret.val = FALSE

\* a suppression with criteria on file names only was asked about the empty
\* soname
C14_Witness ==
  /\ ret.op = "matches_soname"
  /\ ret.arg = S_empty
  /\ Asked1.soname_regex_str_ = S_empty
  /\ Asked1.soname_not_regex_str_ = S_empty
  /\ Asked1.file_name_regex_str_ = S_foo
  /\ ret.val = FALSE

AbsentIfMalformed(str) == IF Malformed(str) THEN S_empty ELSE str

\* the suppression s as its constructor leaves it, with its regex strings that
\* do not compile made empty
WithoutMalformed(s) ==
  new_suppression(s.kind, s.drops_artifact_, s.label_,
                  AbsentIfMalformed(s.file_name_regex_str_),
                  AbsentIfMalformed(s.file_name_not_regex_str_),
                  AbsentIfMalformed(s.soname_regex_str_),
                  AbsentIfMalformed(s.soname_not_regex_str_),
                  s.name_, AbsentIfMalformed(s.name_regex_str_),
                  s.symbol_name_, AbsentIfMalformed(s.symbol_name_regex_str_),
                  s.type_name_)

\* what a matcher with the regex string pos and the not-regex string neg
\* answers about input when strings that do not compile count as absent
AnswerOfCompiled(pos, neg, input) ==
  /\ Compiles(pos) \/ Compiles(neg)
  /\ Compiles(pos) => regexec(pos, input)
  /\ Compiles(neg) => ~regexec(neg, input)

\* C16: a matcher of a suppression with a regex string that does not compile
\* returns, without a failure, what it returns for the same suppression with
\* that string empty: true iff a remaining regex is compiled, the regex, if
\* any, matches the input and the not-regex, if any, does not
C16_MalformedRegexIsAbsent ==
  /\ (/\ ret.op = "matches_soname"
      /\ (\/ Malformed(Asked1.soname_regex_str_)
          \/ Malformed(Asked1.soname_not_regex_str_)))
       => /\ ret.val \in BOOLEAN
          /\ pc = "suppr"
          /\ ret.val = matches_soname(WithoutMalformed(Asked1), ret.arg).val
          /\ ret.val = AnswerOfCompiled(Asked1.soname_regex_str_,
                                        Asked1.soname_not_regex_str_, ret.arg)
  /\ (/\ ret.op = "matches_binary_name"
      /\ (\/ Malformed(Asked1.file_name_regex_str_)
          \/ Malformed(Asked1.file_name_not_regex_str_)))
       => /\ ret.val \in BOOLEAN
          /\ pc = "suppr"
          /\ ret.val = matches_binary_name(WithoutMalformed(Asked1), ret.arg).val
          /\ ret.val = AnswerOfCompiled(Asked1.file_name_regex_str_,
                                        Asked1.file_name_not_regex_str_, ret.arg)

\* a suppression with a file name regex and a malformed not-regex matched
C16_Witness ==
  /\ ret.op = "matches_binary_name"
  /\ Asked1.file_name_regex_str_ = S_foo
  /\ Asked1.file_name_not_regex_str_ = S_re_bad
  /\ ret.arg = S_dot_foo
  /\ ret.val = TRUE
  /\ regcomp_calls[1]["file_name_not_regex_"] >= 1

\* C17 as claimed: whatever calls are made, the string of each regex member
\* is compiled at most once, and an empty string is never compiled
C17_CompiledAtMostOnce ==
  pc = "suppr" =>
    \A m \in RegexMembers :
      /\ regcomp_calls[1][m] <= 1
      /\ regex_str(Asked1, m) = S_empty => regcomp_calls[1][m] = 0

\* C17 as amended: a regex string that compiles is compiled at most once, by
\* the first call that needs it, which stores the result, and every later call
\* returns the stored object without compiling; an empty string is never
\* compiled; a string that does not compile leaves the member empty and is
\* compiled again by every call of its getter
C17_CompiledOnceUnlessMalformed ==
  pc = "suppr" =>
    \A m \in RegexMembers :
      /\ Compiles(regex_str(Asked1, m)) =>
           /\ regcomp_calls[1][m] <= 1
           /\ Asked1[m].ptr <=> regcomp_calls[1][m] = 1
           /\ Asked1[m].ptr => Asked1[m] = regex_of(regex_str(Asked1, m))
           /\ (ret.op = "get" /\ ret.arg = m) =>
                (ret.val = Asked1[m] /\ ret.val.ptr)
      /\ regex_str(Asked1, m) = S_empty =>
           /\ regcomp_calls[1][m] = 0
           /\ ~Asked1[m].ptr
           /\ (ret.op = "get" /\ ret.arg = m) => ret.val = null_regex
      /\ Malformed(regex_str(Asked1, m)) =>
           /\ ~Asked1[m].ptr
           /\ (ret.op = "get" /\ ret.arg = m) =>
                (ret.val = null_regex /\ ret.compiled = {m})

\* a getter returned the regex that an earlier call had compiled
C17_Witness ==
  /\ pc = "suppr"
  /\ ret.op = "get"
  /\ ret.arg = "name_regex_"
  /\ ret.compiled = {}
  /\ ret.val = regex_of(S_re_any)
  /\ regcomp_calls[1]["name_regex_"] = 1

-----------------------------------------------------------------------------
(* The read context: its suppressions and the tests that go through them *)

\* number of suppressions of the read context
MaxSupprs == 2

S_private_label ==
  <<112, 114, 105, 118, 97, 116, 101, 32, 116, 121, 112, 101, 115>>

is_function_suppression(s) == s.kind = "function"
is_variable_suppression(s) == s.kind = "variable"
is_type_suppression(s) == s.kind = "type"
get_drops_artifact_from_ir(s) == s.drops_artifact_
is_private_type_suppr_spec(s) ==
  is_type_suppression(s) /\ s.label_ = S_private_label

\* the suppressions of a read context and their calls of regcomp, as they are
\* handed from one test to the next
context(supprs, calls) == [suppressions |-> supprs, regcomp_calls |-> calls]

\* the outcome r of a call on suppression i of the context cs: the context
\* after the call and the value returned
in_context(cs, i, r) ==
  [cs |-> context([cs.suppressions EXCEPT ![i] = r.s],
                  [cs.regcomp_calls EXCEPT ![i] = count_regcomp(@, r.compiled)]),
   val |-> r.val]

\* a test of name against the regex g.val if there is one, else against the
\* exact name
name_test(g, exact, name) ==
  [s |-> g.s,
   val |-> IF g.val.ptr THEN regexec(g.val.re, name)
           ELSE exact # S_empty /\ exact = name,
   compiled |-> g.compiled]

\* ctxt.suppression_matches_function_name and its like
suppression_matches_function_name(s, fn_name) ==
  name_test(get_name_regex(s), s.name_, fn_name)
suppression_matches_function_sym_name(s, fn_linkage_name) ==
  name_test(get_symbol_name_regex(s), s.symbol_name_, fn_linkage_name)
suppression_matches_variable_name(s, var_name) ==
  name_test(get_name_regex(s), s.name_, var_name)
suppression_matches_variable_sym_name(s, var_linkage_name) ==
  name_test(get_symbol_name_regex(s), s.symbol_name_, var_linkage_name)
suppression_matches_type_name_or_location(s, type_name) ==
  s.type_name_ # S_empty /\ s.type_name_ = type_name

no_match(cs) == [cs |-> cs, val |-> FALSE]

RECURSIVE function_is_suppressed_from(_, _, _, _, _)
\* the loop of function_is_suppressed from suppression i on
function_is_suppressed_from(cs, i, fn_name, fn_linkage_name, require_drop_property) ==
  IF i > Len(cs.suppressions) THEN no_match(cs)
  ELSE
    LET suppr == cs.suppressions[i]
    IN IF ~is_function_suppression(suppr)
          \/ (require_drop_property /\ ~get_drops_artifact_from_ir(suppr))
       THEN function_is_suppressed_from(cs, i + 1, fn_name, fn_linkage_name,
                                        require_drop_property)
       ELSE
         LET m1 == IF fn_name # S_empty
                   THEN in_context(cs, i,
                          suppression_matches_function_name(suppr, fn_name))
                   ELSE no_match(cs)
             m2 == IF fn_linkage_name # S_empty
                   THEN in_context(m1.cs, i,
                          suppression_matches_function_sym_name(
                            m1.cs.suppressions[i], fn_linkage_name))
                   ELSE no_match(m1.cs)
         IN IF m1.val THEN m1
            ELSE IF m2.val THEN m2
            ELSE function_is_suppressed_from(m2.cs, i + 1, fn_name,
                                             fn_linkage_name,
                                             require_drop_property)

function_is_suppressed_whatever_drops(cs, fn_name, fn_linkage_name, require_drop_property) ==
  function_is_suppressed_from(cs, 1, fn_name, fn_linkage_name, FALSE)

\* function_is_suppressed
function_is_suppressed(cs, fn_name, fn_linkage_name, require_drop_property) ==
  function_is_suppressed_from(cs, 1, fn_name, fn_linkage_name,
                              require_drop_property)

RECURSIVE variable_is_suppressed_from(_, _, _, _, _)
\* the loop of variable_is_suppressed from suppression i on
variable_is_suppressed_from(cs, i, var_name, var_linkage_name, require_drop_property) ==
  IF i > Len(cs.suppressions) THEN no_match(cs)
  ELSE
    LET suppr == cs.suppressions[i]
    IN IF ~is_variable_suppression(suppr)
          \/ (require_drop_property /\ ~get_drops_artifact_from_ir(suppr))
       THEN variable_is_suppressed_from(cs, i + 1, var_name, var_linkage_name,
                                        require_drop_property)
       ELSE
         LET m1 == IF var_name # S_empty
                   THEN in_context(cs, i,
                          suppression_matches_variable_name(suppr, var_name))
                   ELSE no_match(cs)
             m2 == IF var_linkage_name # S_empty
                   THEN in_context(m1.cs, i,
                          suppression_matches_variable_sym_name(
                            m1.cs.suppressions[i], var_linkage_name))
                   ELSE no_match(m1.cs)
         IN IF m1.val THEN m1
            ELSE IF m2.val THEN m2
            ELSE variable_is_suppressed_from(m2.cs, i + 1, var_name,
                                             var_linkage_name,
                                             require_drop_property)

\* variable_is_suppressed
variable_is_suppressed(cs, var_name, var_linkage_name, require_drop_property) ==
  variable_is_suppressed_from(cs, 1, var_name, var_linkage_name,
                              require_drop_property)

RECURSIVE type_is_suppressed_from(_, _, _, _, _)
\* the loop of type_is_suppressed from suppression i on: the value returned
\* and the value the referenced variable type_is_private has after the call
type_is_suppressed_from(cs, i, type_name, type_is_private_, require_drop_property) ==
  IF i > Len(cs.suppressions)
  THEN [val |-> FALSE, type_is_private |-> FALSE]
  ELSE
    LET suppr == cs.suppressions[i]
    IN IF ~is_type_suppression(suppr)
          \/ (require_drop_property /\ ~get_drops_artifact_from_ir(suppr))
       THEN type_is_suppressed_from(cs, i + 1, type_name, type_is_private_,
                                    require_drop_property)
       ELSE IF suppression_matches_type_name_or_location(suppr, type_name)
       THEN [val |-> TRUE,
             type_is_private |-> IF is_private_type_suppr_spec(suppr) THEN TRUE
                                 ELSE type_is_private_]
       ELSE type_is_suppressed_from(cs, i + 1, type_name, type_is_private_,
                                    require_drop_property)

\* type_is_suppressed with the out-parameter type_is_private
type_is_suppressed(cs, type_name, type_is_private_, require_drop_property) ==
  type_is_suppressed_from(cs, 1, type_name, type_is_private_,
                          require_drop_property)

\* type_is_suppressed without the out-parameter
type_is_suppressed3(cs, type_name) ==
  type_is_suppressed(cs, type_name, FALSE, FALSE).val

elf_symbol_is_function(sym_type) == sym_type \in {"FUNC", "GNU_IFUNC"}
elf_symbol_is_variable(sym_type) == sym_type \in {"OBJECT", "TLS"}

is_elf_symbol_suppressed_as_variable(cs, sym_name, sym_type) ==
  IF elf_symbol_is_function(sym_type) \/ elf_symbol_is_variable(sym_type)
  THEN variable_is_suppressed(cs, S_empty, sym_name, FALSE)
  ELSE no_match(cs)

\* is_elf_symbol_suppressed
is_elf_symbol_suppressed(cs, sym_name, sym_type) ==
  IF elf_symbol_is_function(sym_type)
  THEN function_is_suppressed(cs, S_empty, sym_name, FALSE)
  ELSE IF elf_symbol_is_variable(sym_type)
  THEN variable_is_suppressed(cs, S_empty, sym_name, FALSE)
  ELSE no_match(cs)

-----------------------------------------------------------------------------
(* The caller that asks a read context about functions, variables and types *)

\* the linkage names asked about
CtxtNames == {S_empty, S_foo, S_bar}

\* the suppressions a read context is given: function, variable and type
\* suppressions, of which some drop the artifact from the IR, with an exact
\* name, an exact symbol name or a regex that matches every string
CtxtSuppressions ==
  { new_suppression("function", c[1], S_empty, S_empty, S_empty, S_empty,
                    S_empty, c[2], S_empty, c[3], c[4], S_empty) :
      c \in {<<FALSE, S_foo, S_empty, S_empty>>,
             <<FALSE, S_empty, S_foo, S_empty>>,
             <<TRUE, S_empty, S_empty, S_re_any>>} }
  \cup
  { new_suppression("variable", FALSE, S_empty, S_empty, S_empty, S_empty,
                    S_empty, S_empty, S_empty, S_foo, S_empty, S_empty),
    new_suppression("variable", TRUE, S_empty, S_empty, S_empty, S_empty,
                    S_empty, S_empty, S_re_any, S_empty, S_empty, S_empty) }
  \cup
  { new_suppression("type", c[1], c[2], S_empty, S_empty, S_empty, S_empty,
                    S_empty, S_empty, S_empty, S_empty, S_foo) :
      c \in {<<FALSE, S_private_label>>, <<TRUE, S_empty>>} }

\* a read context with at most MaxSupprs suppressions, in the state start,
\* and the binaries it is to read
InitContext(start, binaries) ==
  /\ pc = start
  /\ elf = NoElf
  /\ is_suppressed = NoPredicate
  /\ idx = 0
  /\ heap = <<>>
  /\ sym_value = <<>>
  /\ symbols_ = <<>>
  /\ name_symbol_map_ = EmptyMap
  /\ addr_symbol_map_ = EmptyMap
  /\ entry_addr_symbol_map_ = EmptyMap
  /\ exported_kernel_symbols = {}
  /\ markers = {}
  /\ is_kernel_binary_ = FALSE
  /\ has_ksymtab_entries_ = FALSE
  /\ result = "none"
  /\ ret = NoRet
  /\ filter_ = default_filter
  /\ iter = NoIter
  /\ suppressions \in SeqsUpTo(CtxtSuppressions, MaxSupprs)
  /\ regcomp_calls = [i \in 1..Len(suppressions) |-> [m \in RegexMembers |-> 0]]
  /\ type_is_private = FALSE
  /\ corpus = binaries
  /\ report = [op |-> "none"]
  /\ NoLater

InitCtxt == InitContext("ctxt", <<>>)

FunctionIsSuppressed ==
  /\ pc = "ctxt"
  /\ \E fn_name \in {S_empty, S_foo}, fn_linkage_name \in CtxtNames,
        require_drop_property \in BOOLEAN :
       LET r == function_is_suppressed(context(suppressions, regcomp_calls),
                  fn_name, fn_linkage_name, require_drop_property)
       IN /\ suppressions' = r.cs.suppressions
          /\ regcomp_calls' = r.cs.regcomp_calls
          /\ ret' = [op |-> "function_is_suppressed", name |-> fn_name,
                     linkage_name |-> fn_linkage_name,
                     require_drop_property |-> require_drop_property,
                     val |-> r.val]
  /\ UNCHANGED <<readerVars, laterVars, type_is_private, corpus, report>>

VariableIsSuppressed ==
  /\ pc = "ctxt"
  /\ \E var_name \in {S_empty, S_foo}, var_linkage_name \in CtxtNames,
        require_drop_property \in BOOLEAN :
       LET r == variable_is_suppressed(context(suppressions, regcomp_calls),
                  var_name, var_linkage_name, require_drop_property)
       IN /\ suppressions' = r.cs.suppressions
          /\ regcomp_calls' = r.cs.regcomp_calls
          /\ ret' = [op |-> "variable_is_suppressed", name |-> var_name,
                     linkage_name |-> var_linkage_name,
                     require_drop_property |-> require_drop_property,
                     val |-> r.val]
  /\ UNCHANGED <<readerVars, laterVars, type_is_private, corpus, report>>

\* the caller sets its variable to passed and calls type_is_suppressed with it
TypeIsSuppressed ==
  /\ pc = "ctxt"
  /\ \E type_name \in {S_foo, S_bar}, passed \in BOOLEAN,
        require_drop_property \in BOOLEAN :
       LET r == type_is_suppressed(context(suppressions, regcomp_calls),
                  type_name, passed, require_drop_property)
       IN /\ type_is_private' = r.type_is_private
          /\ ret' = [op |-> "type_is_suppressed", name |-> type_name,
                     passed |-> passed,
                     require_drop_property |-> require_drop_property,
                     val |-> r.val]
  /\ UNCHANGED <<readerVars, laterVars, suppressions, regcomp_calls, corpus, report>>

\* the overload without the out-parameter
TypeIsSuppressed3 ==
  /\ pc = "ctxt"
  /\ \E type_name \in {S_foo, S_bar} :
       ret' = [op |-> "type_is_suppressed3", name |-> type_name,
               val |-> type_is_suppressed3(context(suppressions, regcomp_calls),
                                           type_name)]
  /\ UNCHANGED <<readerVars, supprVars, laterVars>>

IsElfSymbolSuppressed ==
  /\ pc = "ctxt"
  /\ \E sym_name \in {S_foo, S_bar}, sym_type \in {"FUNC", "OBJECT", "NOTYPE"} :
       LET r == is_elf_symbol_suppressed(context(suppressions, regcomp_calls),
                                         sym_name, sym_type)
       IN /\ suppressions' = r.cs.suppressions
          /\ regcomp_calls' = r.cs.regcomp_calls
          /\ ret' = [op |-> "is_elf_symbol_suppressed", name |-> sym_name,
                     type |-> sym_type, val |-> r.val]
  /\ UNCHANGED <<readerVars, laterVars, type_is_private, corpus, report>>

NextCtxt ==
  \/ FunctionIsSuppressed \/ VariableIsSuppressed \/ TypeIsSuppressed
  \/ TypeIsSuppressed3 \/ IsElfSymbolSuppressed

SpecCtxt == InitCtxt /\ [][NextCtxt]_vars

-----------------------------------------------------------------------------
(* Claims about the suppression tests of a read context *)

\* the suppressions of the context that the test considers: those of the
\* asked kind, restricted to the ones that drop the artifact when
\* require_drop_property is set
Considered(kind, require_drop_property) ==
  { i \in 1..Len(suppressions) :
      /\ suppressions[i].kind = kind
      /\ require_drop_property => suppressions[i].drops_artifact_ }

\* suppression i matches the non-empty name or the non-empty linkage name
MatchesNames(i, name, linkage_name) ==
  LET s == suppressions[i]
  IN \/ /\ name # S_empty
        /\ IF s.kind = "function"
           THEN suppression_matches_function_name(s, name).val
           ELSE suppression_matches_variable_name(s, name).val
     \/ /\ linkage_name # S_empty
        /\ IF s.kind = "function"
           THEN suppression_matches_function_sym_name(s, linkage_name).val
           ELSE suppression_matches_variable_sym_name(s, linkage_name).val

\* C18: function_is_suppressed returns true iff some function suppression of
\* the context, among the dropping ones only when require_drop_property is
\* set, matches the non-empty name or the non-empty linkage name, whatever
\* the suppressions of other kinds are; variable_is_suppressed does the same
\* with the variable suppressions
C18_SuppressedIffSomeSuppressionOfKindMatches ==
  /\ (pc = "ctxt" /\ ret.op = "function_is_suppressed") =>
       (ret.val <=>
          \E i \in Considered("function", ret.require_drop_property) :
            MatchesNames(i, ret.name, ret.linkage_name))
  /\ (pc = "ctxt" /\ ret.op = "variable_is_suppressed") =>
       (ret.val <=>
          \E i \in Considered("variable", ret.require_drop_property) :
            MatchesNames(i, ret.name, ret.linkage_name))

\* a dropping function suppression answers for a linkage name that a
\* non-dropping one before it matches too, next to a variable suppression
C18_Witness ==
  /\ pc = "ctxt"
  /\ ret.op = "function_is_suppressed"
  /\ ret.val
  /\ ret.require_drop_property
  /\ ret.name = S_empty
  /\ ret.linkage_name = S_foo
  /\ \E i \in 1..Len(suppressions) :
       /\ suppressions[i].kind = "function"
       /\ ~suppressions[i].drops_artifact_
       /\ MatchesNames(i, ret.name, ret.linkage_name)

\* the type suppressions that type_is_suppressed considers and that match
MatchingTypeSuppressions(type_name, require_drop_property) ==
  { i \in Considered("type", require_drop_property) :
      suppression_matches_type_name_or_location(suppressions[i], type_name) }

\* the first of them
FirstOf(S) == CHOOSE i \in S : \A j \in S : i <= j

\* C19: after type_is_suppressed returned true, type_is_private is true iff
\* the matching suppression is a private-type specification, whatever the
\* caller passed; after it returned false, type_is_private is false
C19_TypeIsPrivateIffMatchIsPrivate ==
  (pc = "ctxt" /\ ret.op = "type_is_suppressed") =>
    LET M == MatchingTypeSuppressions(ret.name, ret.require_drop_property)
    IN /\ ret.val <=> M # {}
       /\ IF ret.val
          THEN type_is_private <=>
                 is_private_type_suppr_spec(suppressions[FirstOf(M)])
          ELSE ~type_is_private

-----------------------------------------------------------------------------
(* The comparison of two binaries read with the suppressions of a context *)

\* the function symbols a binary may define
FnNames == <<S_bar, S_foo>>

\* what a binary holds for a function symbol: nothing, or the function with
\* one of two ABIs
Shapes == {"absent", "a", "b"}

\* a binary before it is read
unread(binary) ==
  [binary |-> binary, read |-> FALSE,
   functions |-> [n \in Range(FnNames) |-> "absent"]]

\* the pairs of binaries that differ in one function only
BinaryPairs ==
  { <<unread(b0), unread(b1)>> :
      <<b0, b1>> \in
        { p \in [Range(FnNames) -> Shapes] \X [Range(FnNames) -> Shapes] :
            Cardinality({n \in Range(FnNames) : p[1][n] # p[2][n]}) = 1 } }

InitDiff == \E p \in BinaryPairs : InitContext("diff", p)

RECURSIVE read_functions_from(_, _, _)
\* the symbols of binary from symbol k on, as the reader keeps them: a symbol
\* that is_elf_symbol_suppressed reports is left out of the symbols read
read_functions_from(cs, binary, k) ==
  IF k > Len(FnNames)
  THEN [cs |-> cs, functions |-> [n \in Range(FnNames) |-> "absent"]]
  ELSE
    LET name == FnNames[k]
    IN IF binary[name] = "absent"
       THEN read_functions_from(cs, binary, k + 1)
       ELSE
         LET r == is_elf_symbol_suppressed(cs, name, "FUNC")
             rest == read_functions_from(r.cs, binary, k + 1)
         IN IF r.val THEN rest
            ELSE [rest EXCEPT !.functions[name] = binary[name]]

\* the changes between two corpora: functions removed, added and changed
compute_diff(first, second) ==
  { [name |-> n,
     kind |-> IF second[n] = "absent" THEN "removed"
              ELSE IF first[n] = "absent" THEN "added"
              ELSE "changed"] :
      n \in {m \in Range(FnNames) : first[m] # second[m]} }

ABIDIFF_OK == {}

\* the status of abidiff for a set of changes
abidiff_status(changes) ==
  (IF changes # {} THEN {"ABIDIFF_ABI_CHANGE"} ELSE ABIDIFF_OK)
  \cup (IF \E c \in changes : c.kind = "removed"
        THEN {"ABIDIFF_ABI_INCOMPATIBLE_CHANGE"} ELSE {})

\* the first binary is read, then the second
ReadCorpus ==
  /\ pc = "diff"
  /\ \E k \in 1..Len(corpus) :
       /\ ~corpus[k].read
       /\ \A j \in 1..(k - 1) : corpus[j].read
       /\ LET r == read_functions_from(context(suppressions, regcomp_calls),
                                       corpus[k].binary, 1)
          IN /\ suppressions' = r.cs.suppressions
             /\ regcomp_calls' = r.cs.regcomp_calls
             /\ corpus' = [corpus EXCEPT ![k].read = TRUE,
                                         ![k].functions = r.functions]
  /\ UNCHANGED <<readerVars, laterVars, ret, type_is_private, report>>

\* the two corpora are compared and the status is reported
Compare ==
  /\ pc = "diff"
  /\ \A k \in 1..Len(corpus) : corpus[k].read
  /\ LET changes == compute_diff(corpus[1].functions, corpus[2].functions)
     IN report' = [op |-> "abidiff", changes |-> changes,
                   status |-> abidiff_status(changes)]
  /\ pc' = "compared"
  /\ UNCHANGED <<elf, is_suppressed, idx, heap, sym_value, symbols_,
                 name_symbol_map_, addr_symbol_map_, entry_addr_symbol_map_,
                 exported_kernel_symbols, markers, is_kernel_binary_,
                 has_ksymtab_entries_, result, ret, filter_, iter,
                 suppressions, regcomp_calls, type_is_private, corpus, laterVars>>

NextDiff == ReadCorpus \/ Compare

SpecDiff == InitDiff /\ [][NextDiff]_vars

\* the function in which the two binaries differ
DifferingFunction ==
  CHOOSE n \in Range(FnNames) : corpus[1].binary[n] # corpus[2].binary[n]

-----------------------------------------------------------------------------
(* Threads that call the lazy getters of one shared suppression *)

\* number of threads that share the suppression
MaxThreads == 2

\* the members the threads ask for
RacedMembers == {"soname_regex_", "soname_not_regex_"}

\* a thread about to call the getter of member
new_thread(member) ==
  [member |-> member, pc |-> "check", observed_empty |-> FALSE,
   r |-> null_regex, val |-> null_regex]

\* the test `if (!cache)` of a getter
cache_is_empty(s, member) == ~s[member].ptr

next_after_check_always_compiles(observed_empty, str) ==
  IF str # S_empty THEN "compile" ELSE "return"

\* where a getter goes after it has read the cache: to regcomp when the cache
\* was seen empty and the string is not empty, else to its return statement
next_after_check(observed_empty, str) ==
  IF observed_empty /\ str # S_empty THEN "compile" ELSE "return"

\* where a getter goes after regcomp: to the assignment of the cache when
\* regcomp returned 0, else to its return statement
next_after_compile(str) == IF regcomp(str) THEN "store" ELSE "return"

InitRace ==
  /\ pc = "race"
  /\ elf = NoElf
  /\ is_suppressed = NoPredicate
  /\ idx = 0
  /\ heap = <<>>
  /\ sym_value = <<>>
  /\ symbols_ = <<>>
  /\ name_symbol_map_ = EmptyMap
  /\ addr_symbol_map_ = EmptyMap
  /\ entry_addr_symbol_map_ = EmptyMap
  /\ exported_kernel_symbols = {}
  /\ markers = {}
  /\ is_kernel_binary_ = FALSE
  /\ has_ksymtab_entries_ = FALSE
  /\ result = "none"
  /\ ret = NoRet
  /\ filter_ = default_filter
  /\ iter = NoIter
  /\ \E o \in RegexStrings \X RegexStrings :
       suppressions = <<new_suppression("function", FALSE, S_empty, S_empty,
                          S_empty, o[1], o[2], S_empty, S_empty, S_empty,
                          S_empty, S_empty)>>
  /\ regcomp_calls = <<[m \in RegexMembers |-> 0]>>
  /\ type_is_private = FALSE
  /\ corpus = <<>>
  /\ report = [op |-> "none"]
  /\ threads \in [1..MaxThreads -> {new_thread(m) : m \in RacedMembers}]
  /\ opt = optional_empty
  /\ supplied = <<>>
  /\ wctxt = NoWriteContext
  /\ ids_given = <<>>
  /\ ir = <<>>
  /\ wtu = [op |-> "none"]

\* what the steps of a thread leave alone, but for the suppression
raceFrame == <<readerVars, ret, type_is_private, corpus, report, opt,
               supplied, wctxt, ids_given, ir, wtu>>

\* thread t reads the cache: if (!soname_regex_)
Check(t) ==
  /\ pc = "race"
  /\ threads[t].pc = "check"
  /\ LET m == threads[t].member
         e == cache_is_empty(suppressions[1], m)
     IN threads' = [threads EXCEPT
                      ![t].observed_empty = e,
                      ![t].pc = next_after_check(e, regex_str(suppressions[1], m))]
  /\ UNCHANGED <<raceFrame, suppressions, regcomp_calls>>

\* thread t compiles the string into its local r
Compile(t) ==
  /\ pc = "race"
  /\ threads[t].pc = "compile"
  /\ LET m == threads[t].member
         str == regex_str(suppressions[1], m)
     IN /\ threads' = [threads EXCEPT
                         ![t].r = IF regcomp(str) THEN regex_of(str)
                                  ELSE null_regex,
                         ![t].pc = next_after_compile(str)]
        /\ regcomp_calls' = [regcomp_calls EXCEPT
                               ![1] = count_regcomp(@, {m})]
  /\ UNCHANGED <<raceFrame, suppressions>>

\* thread t writes the cache: soname_regex_ = r
Store(t) ==
  /\ pc = "race"
  /\ threads[t].pc = "store"
  /\ suppressions' = [suppressions EXCEPT
                        ![1][threads[t].member] = threads[t].r]
  /\ threads' = [threads EXCEPT ![t].pc = "return"]
  /\ UNCHANGED <<raceFrame, regcomp_calls>>

\* thread t reads the cache again and returns it
Return(t) ==
  /\ pc = "race"
  /\ threads[t].pc = "return"
  /\ threads' = [threads EXCEPT
                   ![t].val = suppressions[1][threads[t].member],
                   ![t].pc = "done"]
  /\ UNCHANGED <<raceFrame, suppressions, regcomp_calls>>

\* the next step of thread t reads, or writes, the cache of its member
reads_cache(t) == threads[t].pc \in {"check", "return"}
writes_cache(t) == threads[t].pc = "store"

\* two threads are about to access the same cache, one of them to write it,
\* and nothing orders the two accesses
DataRace ==
  \E t, u \in DOMAIN threads :
    /\ t # u
    /\ threads[t].member = threads[u].member
    /\ writes_cache(t)
    /\ reads_cache(u) \/ writes_cache(u)

\* a data race has undefined behaviour: the program may do anything from there
Undefined ==
  /\ pc = "race"
  /\ DataRace
  /\ pc' = "undefined"
  /\ UNCHANGED <<elf, is_suppressed, idx, heap, sym_value, symtabVars,
                 exported_kernel_symbols, markers, result, filter_, iter, ret,
                 supprVars, laterVars>>

NextRace ==
  \/ \E t \in 1..MaxThreads : Check(t) \/ Compile(t) \/ Store(t) \/ Return(t)
  \/ Undefined

SpecRace == InitRace /\ [][NextRace]_vars

\* the threads that have called regcomp for member m
Compiled(m) ==
  { t \in DOMAIN threads :
      /\ threads[t].member = m
      /\ threads[t].observed_empty
      /\ threads[t].pc \in {"store", "return", "done"}
      /\ regex_str(suppressions[1], m) # S_empty }

\* C21: the getters take no lock: a thread compiles and stores whenever it saw
\* the cache empty, whatever the other threads do, so that regcomp is called
\* once for every thread that saw the cache of a member empty, and two
\* threads that both saw it empty both compile and both store
C21_GettersAreNotSynchronized ==
  pc = "race" =>
    /\ \A t \in DOMAIN threads :
         threads[t].pc \in {"compile", "store"} => threads[t].observed_empty
    /\ \A m \in RacedMembers :
         regcomp_calls[1][m] = Cardinality(Compiled(m))

\* two threads have seen the cache of soname_regex_ empty, have both compiled,
\* and are both about to write the cache
C21_Witness ==
  /\ pc = "race"
  /\ DataRace
  /\ \E t, u \in DOMAIN threads :
       /\ t # u
       /\ threads[t].member = "soname_regex_"
       /\ threads[u].member = "soname_regex_"
       /\ threads[t].observed_empty /\ threads[u].observed_empty
       /\ writes_cache(t) /\ writes_cache(u)
  /\ regcomp_calls[1]["soname_regex_"] = 2

-----------------------------------------------------------------------------
(* abg_compat::optional<T>: constructions, assignments and reads *)

\* number of values given to one optional
MaxSupplied == 4

\* optional<T>::has_value
has_value(o) == o.has_value_

\* optional<T>::value: it throws, or returns a reference to value_
value(o) ==
  IF ~o.has_value_ THEN [thrown |-> TRUE, ref |-> "none", val |-> FALSE]
  ELSE [thrown |-> FALSE, ref |-> "value_", val |-> o.value_]

\* optional<T>::value_or: a reference to its argument or to value_
value_or(o, default_value) ==
  IF ~o.has_value_ THEN [ref |-> "default_value", val |-> default_value]
  ELSE [ref |-> "value_", val |-> o.value_]

InitOpt ==
  /\ pc = "opt"
  /\ elf = NoElf
  /\ is_suppressed = NoPredicate
  /\ idx = 0
  /\ heap = <<>>
  /\ sym_value = <<>>
  /\ symbols_ = <<>>
  /\ name_symbol_map_ = EmptyMap
  /\ addr_symbol_map_ = EmptyMap
  /\ entry_addr_symbol_map_ = EmptyMap
  /\ exported_kernel_symbols = {}
  /\ markers = {}
  /\ is_kernel_binary_ = FALSE
  /\ has_ksymtab_entries_ = FALSE
  /\ result = "none"
  /\ ret = NoRet
  /\ filter_ = default_filter
  /\ iter = NoIter
  /\ NoSuppr

\* what the calls on the optional leave alone
optFrame == <<readerVars, supprVars, threads, wctxt, ids_given, ir, wtu>>

\* optional<T> opt;
Construct ==
  /\ pc = "opt"
  /\ opt' = optional_empty
  /\ supplied' = <<>>
  /\ ret' = [op |-> "optional"]
  /\ UNCHANGED optFrame

\* optional<T> opt(v);
ConstructWith ==
  /\ pc = "opt"
  /\ \E v \in BOOLEAN :
       /\ opt' = optional_of(v)
       /\ supplied' = <<v>>
  /\ ret' = [op |-> "optional"]
  /\ UNCHANGED optFrame

\* opt = v;
Assign ==
  /\ pc = "opt"
  /\ Len(supplied) < MaxSupplied
  /\ \E v \in BOOLEAN :
       /\ opt' = optional_assign(opt, v)
       /\ supplied' = Append(supplied, v)
  /\ ret' = [op |-> "operator="]
  /\ UNCHANGED optFrame

HasValue ==
  /\ pc = "opt"
  /\ ret' = [op |-> "has_value", val |-> has_value(opt)]
  /\ UNCHANGED <<optFrame, opt, supplied>>

Value ==
  /\ pc = "opt"
  /\ ret' = [op |-> "value", out |-> value(opt)]
  /\ UNCHANGED <<optFrame, opt, supplied>>

ValueOr ==
  /\ pc = "opt"
  /\ \E default_value \in BOOLEAN :
       ret' = [op |-> "value_or", default_value |-> default_value,
               out |-> value_or(opt, default_value)]
  /\ UNCHANGED <<optFrame, opt, supplied>>

NextOpt ==
  \/ Construct \/ ConstructWith \/ Assign \/ HasValue \/ Value \/ ValueOr

SpecOpt == InitOpt /\ [][NextOpt]_vars

-----------------------------------------------------------------------------
(* Claims about common symbols, has_symbols and the assertions of load_ *)

\* load_ is scanning, or has scanned, the entries of an ELF handle
ScannedFromElf == pc \in {"scan", "loaded"} /\ load_can_start(elf)

\* the common symbols load_ created
CommonIds == {id \in KeptIds : is_common_symbol(heap[id])}

\* load_ stopped at the assertion why
AbortedAt(why) == pc = "aborted" /\ ret.op = "abort" /\ ret.why = why

\* C23: during the load from ELF no common symbol is in the address map and
\* none is an alias or has one; a scanned common symbol whose name already
\* had an entry in the name map is added as a common instance of the first
\* symbol recorded under that name
C23_CommonSymbolsAreInstancesNotAliases ==
  /\ ScannedFromElf =>
       \A id \in CommonIds :
         /\ \A a \in DOMAIN addr_symbol_map_ : addr_symbol_map_[a] # id
         /\ heap[id].next_alias = Nil
         /\ \A o \in KeptIds : heap[o].next_alias # id
         /\ LET first == name_symbol_map_[heap[id].name][1]
            IN first # id => id \in Range(get_common_instances(heap, first))
  /\ ~(/\ AbortedAt("main_common_sym")
       /\ ret.entry.st_shndx = "SHN_COMMON"
       /\ Find(name_symbol_map_, ret.entry.name))

\* C24: has_symbols of a symtab loaded from a Linux kernel binary is true iff
\* a __ksymtab_ marker entry was read during the load; of any other symtab it
\* is true iff the ordered sequence is not empty
C24_HasSymbolsIffMarkerSeen ==
  (pc = "loaded" /\ ret.op = "has_symbols") =>
    IF is_kernel_binary_ THEN ret.val <=> markers # {}
    ELSE ret.val <=> symbols_ # <<>>

\* the symbol registered for the entry point address of the entry e
RegisteredFor(e) ==
  entry_addr_symbol_map_[lookup_ppc64_elf_fn_entry_point_address(elf, e.st_value)]

\* C27: on PPC64 the assertion of update_function_entry_address_symbol_map
\* does not fail for a function symbol whose value, a function descriptor
\* address in .opd, is also the value of the function symbol registered
\* before it for the same entry point address
C27_EntryAddressAssertionHoldsForAliases ==
  ~(/\ AbortedAt("two_symbols_alias")
    /\ sym_value[RegisteredFor(ret.entry)] = ret.entry.st_value)

\* C28: the assertions on main_common_sym do not fail, whatever the entries
\* of the symbol table are
C28_CommonAssertionsNeverFail == ~AbortedAt("main_common_sym")

(***************************************************************************)
(* The XML writer (src/src/abg-writer.cc): id_manager, write_context and   *)
(* write_translation_unit.  A type of the IR is an index into ir.          *)
(***************************************************************************)
MaxTypes == 3
MaxIds == 3

\* the kinds of types handed to the writer: one that a writer of the
\* write_decl chain emits, a declaration-only class or union, a function type
\* (no declaration), and array_type_def::subrange_type, which has a
\* declaration but no writer in the write_decl chain
TypeKinds == {"type", "decl_only", "fn_type", "subrange"}

TypeObjs == DOMAIN ir

\* type_base::get_naked_canonical_type() or, when it is null, the type itself
canonical_or_self(t) == IF ir[t].canonical = 0 THEN t ELSE ir[t].canonical

\* deep_ptr_eq_functor: two keys are equal when the objects they point to are
deep_ptr_eq(a, b) == ir[a].shape = ir[b].shape

\* unordered container lookup under deep_ptr_eq_functor
find(keys, k) == {x \in keys : deep_ptr_eq(x, k)}

\* unordered_set::insert: nothing is added when an equal key is there
insert(keys, k) == IF find(keys, k) # {} THEN keys ELSE keys \cup {k}

\* m[k] = v of an unordered_map under deep_ptr_eq_functor
map_store(m, k, v) ==
  IF find(DOMAIN m, k) # {}
    THEN [x \in DOMAIN m |-> IF deep_ptr_eq(x, k) THEN v ELSE m[x]]
    ELSE [x \in DOMAIN m \cup {k} |-> IF x = k THEN v ELSE m[x]]

\* id_manager::get_new_id: ++m_cur_id of an unsigned long long, which does
\* not wrap within the number of ids a run hands out
get_new_id(c) ==
  LET n == c.m_cur_id + 1
  IN [ctxt |-> [c EXCEPT !.m_cur_id = n], n |-> n]

\* id_manager::get_id_with_prefix
get_id_with_prefix(c, prefix) ==
  LET g == get_new_id(c)
  IN [ctxt |-> g.ctxt, id |-> prefix \o ToString(g.n)]

\* write_context::get_id_for_type
get_id_for_type(c, t) ==
  LET k == canonical_or_self(t)
      it == find(DOMAIN c.m_type_id_map, k)
      g == get_id_with_prefix(c, "type-id-")
  IN IF it = {}
       THEN [ctxt |-> [g.ctxt EXCEPT !.m_type_id_map = map_store(@, k, g.id)],
             id |-> g.id]
       ELSE [ctxt |-> c, id |-> c.m_type_id_map[CHOOSE x \in it : TRUE]]

\* write_context::get_id_for_fn_tmpl: the map is keyed by the shared pointer
get_id_for_fn_tmpl(c, f) ==
  LET g == get_id_with_prefix(c, "fn-tmpl-id-")
  IN IF f \notin DOMAIN c.m_fn_tmpl_id_map
       THEN [ctxt |-> [g.ctxt EXCEPT !.m_fn_tmpl_id_map =
                         [x \in DOMAIN @ \cup {f} |-> IF x = f THEN g.id ELSE @[x]]],
             id |-> g.id]
       ELSE [ctxt |-> c, id |-> c.m_fn_tmpl_id_map[f]]

\* write_context::get_id_for_class_tmpl
get_id_for_class_tmpl(c, f) ==
  LET g == get_id_with_prefix(c, "class-tmpl-id-")
  IN IF f \notin DOMAIN c.m_class_tmpl_id_map
       THEN [ctxt |-> [g.ctxt EXCEPT !.m_class_tmpl_id_map =
                         [x \in DOMAIN @ \cup {f} |-> IF x = f THEN g.id ELSE @[x]]],
             id |-> g.id]
       ELSE [ctxt |-> c, id |-> c.m_class_tmpl_id_map[f]]

\* write_context::clear_type_id_map
clear_type_id_map_and_counter(c) == [c EXCEPT !.m_type_id_map = <<>>, !.m_cur_id = 0]
clear_type_id_map(c) == [c EXCEPT !.m_type_id_map = <<>>]

\* write_context::record_type_as_referenced: keyed by the type itself
record_type_as_referenced(c, t) ==
  [c EXCEPT !.m_referenced_types_map = insert(@, t)]

\* write_context::type_is_referenced
type_is_referenced(c, t) == find(c.m_referenced_types_map, t) # {}

\* write_context::record_type_as_emitted
record_type_as_emitted_keeping_nothing(c, t) == c
record_type_as_emitted(c, t) ==
  [c EXCEPT !.m_emitted_type_set = insert(@, canonical_or_self(t))]

\* write_context::type_is_emitted
type_is_emitted(c, t) == find(c.m_emitted_type_set, canonical_or_self(t)) # {}

\* write_context::record_decl_only_type_as_emitted
record_decl_only_type_as_emitted(c, t) ==
  [c EXCEPT !.m_emitted_decl_only_set = insert(@, t)]

\* write_context::decl_only_type_is_emitted
decl_only_type_is_emitted(c, t) == find(c.m_emitted_decl_only_set, t) # {}

\* the numbers the id manager hands out while the context goes from c to d
ids_between(c, d) == [i \in 1..(d.m_cur_id - c.m_cur_id) |-> c.m_cur_id + i]

\* `o << ctxt.get_id_for_type(t); ctxt.record_type_as_referenced(t);`, the
\* way every writer emits the type-id of a type it refers to
write_type_id(c, t) == record_type_as_referenced(get_id_for_type(c, t).ctxt, t)

RECURSIVE write_type_ids(_, _)
write_type_ids(c, ts) ==
  IF ts = <<>> THEN c
  ELSE write_type_ids(write_type_id(c, Head(ts)), Tail(ts))

\* write_function_type
write_function_type(c, t) ==
  record_type_as_emitted(
    get_id_for_type(write_type_ids(c, ir[t].refs), t).ctxt, t)

\* write_decl for the declaration of type t: the first writer of the chain
\* that accepts it, and no output when none does
write_decl(c, t) ==
  CASE ir[t].kind = "type" ->
         record_type_as_emitted(
           get_id_for_type(write_type_ids(c, ir[t].refs), t).ctxt, t)
    [] ir[t].kind = "decl_only" ->
         record_decl_only_type_as_emitted(get_id_for_type(c, t).ctxt, t)
    [] OTHER -> c

\* write_decl_in_scope, for a declaration of the global scope
write_decl_in_scope(c, t) == IF type_is_emitted(c, t) THEN c ELSE write_decl(c, t)

\* write_var_decl
write_var_decl(c, t) == write_type_id(c, t)

\* the first loop of write_translation_unit, over the members of the global scope
RECURSIVE write_members(_, _)
write_members(c, ds) ==
  IF ds = <<>> THEN c
  ELSE LET d == Head(ds)
           after == IF d.decl = "var" THEN write_var_decl(c, d.t)
                    ELSE IF type_is_emitted(c, d.t) THEN c
                    ELSE write_decl(c, d.t)
       IN write_members(after, Tail(ds))

\* the referenced types that are neither emitted nor emitted as a
\* declaration-only class
referenced_types_to_emit(c) ==
  {t \in c.m_referenced_types_map :
     ~type_is_emitted(c, t) /\ ~decl_only_type_is_emitted(c, t)}

\* write_context::sort_types, with the index of a type as its sort key
RECURSIVE sort_types(_)
sort_types(ts) ==
  IF ts = {} THEN <<>>
  ELSE LET m == CHOOSE x \in ts : \A y \in ts : x <= y
       IN <<m>> \o sort_types(ts \ {m})

\* the body of `while (!referenced_types_to_emit.empty())` for the sorted types
RECURSIVE write_referenced_types(_, _)
write_referenced_types(c, ts) ==
  IF ts = <<>> THEN c
  ELSE LET t == Head(ts)
           after == IF type_is_emitted(c, t) THEN c
                    ELSE IF ir[t].kind # "fn_type" THEN write_decl_in_scope(c, t)
                    ELSE write_function_type(c, t)
       IN write_referenced_types(after, Tail(ts))

\* the last loop of write_translation_unit, over tu.get_live_fn_types()
RECURSIVE write_live_fn_types(_, _)
write_live_fn_types(c, ts) ==
  IF ts = <<>> THEN c
  ELSE LET t == Head(ts)
           after == IF ~type_is_referenced(c, t) \/ type_is_emitted(c, t) THEN c
                    ELSE write_function_type(c, t)
       IN write_live_fn_types(after, Tail(ts))

\* translation_unit::get_live_fn_types
get_live_fn_types == {t \in TypeObjs : ir[t].kind = "fn_type"}

\* the member declarations of the global scope of the translation unit
MemberLists ==
  {<<>>, <<[decl |-> "var", t |-> 1]>>, <<[decl |-> "type", t |-> 1]>>,
   <<[decl |-> "type", t |-> 2], [decl |-> "var", t |-> 1]>>}

readerIdle == <<elf, is_suppressed, idx, heap, sym_value, symtabVars,
                exported_kernel_symbols, markers, result, filter_, iter>>

writerFrame == <<readerIdle, supprVars, threads, opt, supplied>>

\* a symbol table reader that has read nothing
NoSymtab ==
  /\ elf = NoElf
  /\ is_suppressed = NoPredicate
  /\ idx = 0
  /\ heap = <<>>
  /\ sym_value = <<>>
  /\ symbols_ = <<>>
  /\ name_symbol_map_ = EmptyMap
  /\ addr_symbol_map_ = EmptyMap
  /\ entry_addr_symbol_map_ = EmptyMap
  /\ exported_kernel_symbols = {}
  /\ markers = {}
  /\ is_kernel_binary_ = FALSE
  /\ has_ksymtab_entries_ = FALSE
  /\ result = "none"
  /\ ret = NoRet
  /\ filter_ = default_filter
  /\ iter = NoIter

\* a reader that has read nothing and has no suppression, next to the writer
NoReader ==
  /\ NoSymtab
  /\ suppressions = <<>>
  /\ regcomp_calls = <<>>
  /\ type_is_private = FALSE
  /\ corpus = <<>>
  /\ report = [op |-> "none"]
  /\ threads = <<>>
  /\ opt = optional_empty
  /\ supplied = <<>>

\* write_translation_unit is called with a fresh write context
InitWtu ==
  /\ pc = "wtu_members"
  /\ NoReader
  /\ wctxt = NoWriteContext
  /\ ids_given = <<>>
  /\ \E kinds \in [1..MaxTypes -> TypeKinds] :
     \E refs \in [1..MaxTypes -> {0, 1}] :
       ir = [t \in 1..MaxTypes |->
               [kind |-> kinds[t], canonical |-> 0, shape |-> t,
                refs |-> IF refs[t] = 0 THEN <<>> ELSE <<(t % MaxTypes) + 1>>]]
  /\ \E ms \in MemberLists :
       /\ \A i \in 1..Len(ms) : ms[i].decl = "type" => ir[ms[i].t].kind # "fn_type"
       /\ wtu = [op |-> "write_translation_unit", members |-> ms,
                 referenced_types_to_emit |-> {}, iterations |-> 0]

\* `if (tu.is_empty()) { o << "/>"; return true; }`
ReturnEmpty ==
  /\ pc = "wtu_members"
  /\ wtu.members = <<>>
  /\ pc' = "returned"
  /\ ret' = [op |-> "write_translation_unit", val |-> TRUE]
  /\ UNCHANGED <<wctxt, ids_given, ir, wtu, writerFrame>>

\* the loop over the members of the global scope, and the first collection
\* of the referenced types to emit
WriteMembers ==
  /\ pc = "wtu_members"
  /\ wtu.members # <<>>
  /\ LET c == write_members(wctxt, wtu.members)
     IN /\ wctxt' = c
        /\ ids_given' = ids_given \o ids_between(wctxt, c)
        /\ wtu' = [wtu EXCEPT !.referenced_types_to_emit = referenced_types_to_emit(c)]
  /\ pc' = "wtu_referenced"
  /\ UNCHANGED <<ret, ir, writerFrame>>

\* one iteration of `while (!referenced_types_to_emit.empty())`; every
\* iteration writes to the stream, of which wtu.iterations keeps the parity of
\* the number of iterations made
WriteReferencedTypes ==
  /\ pc = "wtu_referenced"
  /\ wtu.referenced_types_to_emit # {}
  /\ LET c == write_referenced_types(wctxt, sort_types(wtu.referenced_types_to_emit))
     IN /\ wctxt' = c
        /\ ids_given' = ids_given \o ids_between(wctxt, c)
        /\ wtu' = [wtu EXCEPT !.referenced_types_to_emit = referenced_types_to_emit(c),
                              !.iterations = (@ + 1) % 2]
  /\ UNCHANGED <<pc, ret, ir, writerFrame>>

\* the loop is left: the live function types are handled and true is returned
WriteLiveFnTypes ==
  /\ pc = "wtu_referenced"
  /\ wtu.referenced_types_to_emit = {}
  /\ LET c == write_live_fn_types(wctxt, sort_types(get_live_fn_types))
     IN /\ wctxt' = c
        /\ ids_given' = ids_given \o ids_between(wctxt, c)
  /\ pc' = "returned"
  /\ ret' = [op |-> "write_translation_unit", val |-> TRUE]
  /\ UNCHANGED <<ir, wtu, writerFrame>>

NextWtu == ReturnEmpty \/ WriteMembers \/ WriteReferencedTypes \/ WriteLiveFnTypes

\* the call runs on one thread that is never suspended for ever: a step
\* that can be taken is taken
SpecWtu == InitWtu /\ [][NextWtu]_vars /\ WF_vars(NextWtu)

\* every type recorded as referenced is recorded as emitted, or as an
\* emitted declaration-only class
AllReferencedAreEmitted == referenced_types_to_emit(wctxt) = {}

\* C25: write_translation_unit terminates, and when it has returned every
\* type recorded as referenced has been emitted (recorded as emitted or as an
\* emitted declaration-only class): the loop over the referenced types is
\* repeated until none remains.
C25_WriteTranslationUnitEmitsAllReferenced ==
  /\ <>(pc = "returned")
  /\ [](pc = "returned" => AllReferencedAreEmitted)

(***************************************************************************)
(* The ids of a write context: calls of get_id_for_type,                   *)
(* get_id_for_fn_tmpl, get_id_for_class_tmpl and clear_type_id_map in any  *)
(* order.  wtu.returned holds the <<type, id>> pairs returned since the    *)
(* last clear_type_id_map(), wtu.handed every id the id manager made.      *)
(***************************************************************************)
Tmpls == {1}

\* the least type of the IR that is canonical and has the shape of t, or 0
canonical_of(shape, canon, t) ==
  LET cs == {u \in DOMAIN shape : canon[u] /\ shape[u] = shape[t]}
  IN IF ~canon[t] \/ cs = {} THEN 0 ELSE CHOOSE u \in cs : \A v \in cs : u <= v

\* which types of the IR are equal: none, the first two, or all of them
IdShapes ==
  {[t \in 1..MaxTypes |-> t],
   [t \in 1..MaxTypes |-> IF t <= 2 THEN 1 ELSE t],
   [t \in 1..MaxTypes |-> 1]}

\* a write context is created; the IR holds types of which some are equal
\* (same shape) and some are canonicalized (equal types share the canonical one)
InitIds ==
  /\ pc = "ids"
  /\ NoReader
  /\ wctxt = NoWriteContext
  /\ ids_given = <<>>
  /\ \E shape \in IdShapes :
     \E canon \in [1..MaxTypes -> BOOLEAN] :
       ir = [t \in 1..MaxTypes |->
               [kind |-> "type", canonical |-> canonical_of(shape, canon, t),
                shape |-> shape[t], refs |-> <<>>]]
  /\ wtu = [op |-> "ids", returned |-> {}, handed |-> <<>>]

\* what a getter leaves behind: r is its result, c the context before
after_get(r, c) ==
  /\ wctxt' = r.ctxt
  /\ ids_given' = ids_given \o ids_between(c, r.ctxt)
  /\ UNCHANGED <<pc, ir, writerFrame>>

GetIdForType(t) ==
  /\ pc = "ids"
  /\ wctxt.m_cur_id < MaxIds \/ get_id_for_type(wctxt, t).ctxt = wctxt
  /\ LET r == get_id_for_type(wctxt, t)
     IN /\ after_get(r, wctxt)
        /\ ret' = [op |-> "get_id_for_type", t |-> t, id |-> r.id]
        /\ wtu' = [wtu EXCEPT !.returned = @ \cup {<<t, r.id>>},
                              !.handed = IF r.ctxt.m_cur_id # wctxt.m_cur_id
                                           THEN Append(@, r.id) ELSE @]

GetIdForFnTmpl(f) ==
  /\ pc = "ids"
  /\ wctxt.m_cur_id < MaxIds \/ get_id_for_fn_tmpl(wctxt, f).ctxt = wctxt
  /\ LET r == get_id_for_fn_tmpl(wctxt, f)
     IN /\ after_get(r, wctxt)
        /\ ret' = [op |-> "get_id_for_fn_tmpl", t |-> f, id |-> r.id]
        /\ wtu' = [wtu EXCEPT !.handed = IF r.ctxt.m_cur_id # wctxt.m_cur_id
                                           THEN Append(@, r.id) ELSE @]

GetIdForClassTmpl(f) ==
  /\ pc = "ids"
  /\ wctxt.m_cur_id < MaxIds \/ get_id_for_class_tmpl(wctxt, f).ctxt = wctxt
  /\ LET r == get_id_for_class_tmpl(wctxt, f)
     IN /\ after_get(r, wctxt)
        /\ ret' = [op |-> "get_id_for_class_tmpl", t |-> f, id |-> r.id]
        /\ wtu' = [wtu EXCEPT !.handed = IF r.ctxt.m_cur_id # wctxt.m_cur_id
                                           THEN Append(@, r.id) ELSE @]

ClearTypeIdMap ==
  /\ pc = "ids"
  /\ wctxt.m_type_id_map # <<>>
  /\ wctxt' = clear_type_id_map(wctxt)
  /\ wtu' = [wtu EXCEPT !.returned = {}]
  /\ ret' = [op |-> "clear_type_id_map"]
  /\ UNCHANGED <<pc, ids_given, ir, writerFrame>>

NextIds ==
  \/ \E t \in TypeObjs : GetIdForType(t)
  \/ \E f \in Tmpls : GetIdForFnTmpl(f)
  \/ \E f \in Tmpls : GetIdForClassTmpl(f)
  \/ ClearTypeIdMap

SpecIds == InitIds /\ [][NextIds]_vars

\* two types are one key of m_type_id_map: their canonical types, or the
\* types themselves where there is none, are equal
SameType(a, b) == deep_ptr_eq(canonical_or_self(a), canonical_or_self(b))

\* the sequence s is strictly increasing
StrictlyIncreasing(s) == \A i, j \in 1..Len(s) : i < j => s[i] < s[j]

\* the sequence s holds no value twice
NoDuplicates(s) == \A i, j \in 1..Len(s) : i # j => s[i] # s[j]

REG_EXTENDED == 1

\* regcomp(r, str, cflags) == 0: with REG_EXTENDED parentheses group and must
\* match; in the basic syntax a parenthesis is an ordinary character
regcomp_with_flags(str, cflags) ==
  IF cflags = REG_EXTENDED THEN regcomp(str) ELSE TRUE

\* a regex_t_sptr that remembers the syntax it was compiled for
nil_regex == [ptr |-> FALSE, re |-> S_empty, cflags |-> 0]
compiled_regex(str, cflags) == [ptr |-> TRUE, re |-> str, cflags |-> cflags]

\* the body of a lazy getter that hands cflags to regcomp: the priv after the
\* call, the pointer returned and the calls of regcomp made
lazy_getter(p, member, str_member, cflags) ==
  IF ~p[member].ptr /\ p[str_member] # S_empty
  THEN [p |-> IF regcomp_with_flags(p[str_member], cflags)
              THEN [p EXCEPT ![member] = compiled_regex(p[str_member], cflags)]
              ELSE p,
        val |-> IF regcomp_with_flags(p[str_member], cflags)
                THEN compiled_regex(p[str_member], cflags) ELSE p[member],
        calls |-> {[member |-> member, str |-> p[str_member], cflags |-> cflags]}]
  ELSE [p |-> p, val |-> p[member], calls |-> {}]

\* function_suppression::priv::get_symbol_name_not_regex
function_get_symbol_name_not_regex(p) ==
  lazy_getter(p, "symbol_name_not_regex_", "symbol_name_not_regex_str_", REG_EXTENDED)

\* variable_suppression::priv::get_symbol_name_regex
variable_get_symbol_name_regex(p) ==
  lazy_getter(p, "symbol_name_regex_", "symbol_name_regex_str_", REG_EXTENDED)

\* variable_suppression::priv::get_symbol_name_not_regex: the flags argument
\* is the value of the comparison `REG_EXTENDED == 0`
variable_get_symbol_name_not_regex(p) ==
  lazy_getter(p, "symbol_name_not_regex_", "symbol_name_not_regex_str_",
              IF REG_EXTENDED = 0 THEN 1 ELSE 0)

\* type_suppression::priv::get_type_name_not_regex
get_type_name_not_regex(p) ==
  lazy_getter(p, "type_name_not_regex_", "type_name_not_regex_str_", REG_EXTENDED)

\* type_suppression::priv::set_type_name_not_regex_str
set_type_name_not_regex_str(p, new_regex_str) ==
  [p EXCEPT !.type_name_not_regex_str_ = new_regex_str]

\* the regex strings given to the privs
PrivStrings == {S_empty, S_foo, S_re_any, S_re_bad}

\* a reader and a writer that have done nothing, next to the privs
InitPriv ==
  /\ pc = "priv"
  /\ NoSymtab
  /\ regcomp_calls = {}
  /\ type_is_private = FALSE
  /\ corpus = <<>>
  /\ report = [op |-> "none"]
  /\ NoLater
  /\ \E fn_not, var_re, var_not, ty_not \in PrivStrings :
       suppressions =
         [function |-> [symbol_name_not_regex_str_ |-> fn_not,
                        symbol_name_not_regex_ |-> nil_regex],
          variable |-> [symbol_name_regex_str_ |-> var_re,
                        symbol_name_regex_ |-> nil_regex,
                        symbol_name_not_regex_str_ |-> var_not,
                        symbol_name_not_regex_ |-> nil_regex],
          type |-> [type_name_not_regex_str_ |-> ty_not,
                    type_name_not_regex_ |-> nil_regex]]

privFrame == <<readerIdle, type_is_private, corpus, report, laterVars>>

\* what a getter of the priv of class cls leaves behind
after_getter(cls, op, g) ==
  /\ suppressions' = [suppressions EXCEPT ![cls] = g.p]
  /\ regcomp_calls' = regcomp_calls \cup g.calls
  /\ ret' = [op |-> op, val |-> g.val]
  /\ UNCHANGED <<pc, privFrame>>

FunctionGetSymbolNameNotRegex ==
  /\ pc = "priv"
  /\ after_getter("function", "function_get_symbol_name_not_regex",
                  function_get_symbol_name_not_regex(suppressions.function))

VariableGetSymbolNameRegex ==
  /\ pc = "priv"
  /\ after_getter("variable", "variable_get_symbol_name_regex",
                  variable_get_symbol_name_regex(suppressions.variable))

VariableGetSymbolNameNotRegex ==
  /\ pc = "priv"
  /\ after_getter("variable", "variable_get_symbol_name_not_regex",
                  variable_get_symbol_name_not_regex(suppressions.variable))

GetTypeNameNotRegex ==
  /\ pc = "priv"
  /\ after_getter("type", "get_type_name_not_regex",
                  get_type_name_not_regex(suppressions.type))

SetTypeNameNotRegexStr ==
  /\ pc = "priv"
  /\ \E new_regex_str \in PrivStrings :
       /\ suppressions' = [suppressions EXCEPT
                             !.type = set_type_name_not_regex_str(@, new_regex_str)]
       /\ ret' = [op |-> "set_type_name_not_regex_str", val |-> new_regex_str]
  /\ UNCHANGED <<pc, regcomp_calls, privFrame>>

NextPriv ==
  \/ FunctionGetSymbolNameNotRegex \/ VariableGetSymbolNameRegex
  \/ VariableGetSymbolNameNotRegex \/ GetTypeNameNotRegex
  \/ SetTypeNameNotRegexStr

SpecPriv == InitPriv /\ [][NextPriv]_vars

\* C29: every lazy regex getter compiles its string with REG_EXTENDED, among
\* them get_symbol_name_regex and get_symbol_name_not_regex of
\* variable_suppression and get_symbol_name_not_regex of function_suppression.
C29_EveryGetterCompilesExtended ==
  pc = "priv" => \A call \in regcomp_calls : call.cflags = REG_EXTENDED

\* the regex of str as a getter with REG_EXTENDED yields it: nil when str is
\* empty or does not compile
regex_for(str) ==
  IF str = S_empty \/ ~regcomp_with_flags(str, REG_EXTENDED) THEN nil_regex
  ELSE compiled_regex(str, REG_EXTENDED)

\* C30: after any sequence of set_type_name_not_regex_str and
\* get_type_name_not_regex calls the getter returns the regex compiled from
\* the string most recently set (nil when that string is empty or does not
\* compile), also when a regex of an earlier string was cached.
C30_GetterFollowsLastSetString ==
  (pc = "priv" /\ ret.op = "get_type_name_not_regex") =>
    ret.val = regex_for(suppressions.type.type_name_not_regex_str_)

====
